---- MODULE Spec2Model ----
(***************************************************************************)
(* Model of the health analytics engine of the Oura health bot: the alert  *)
(* engine (src/bot/alerts/monitor.py, src/bot/core/telegram.py) and the    *)
(* derived analytics over the SQLite tables (src/bot/analysis,             *)
(* src/bot/habits, src/bot/scheduler/jobs.py).                             *)
(*                                                                         *)
(* Numbers are exact rationals <<num, den>> with den > 0.  Python's None   *)
(* (and a missing dict key read through .get) is the empty tuple.  A dict  *)
(* is a function whose DOMAIN is its key set.  Time is counted in hours.   *)
(***************************************************************************)
EXTENDS Integers, Sequences, FiniteSets, TLC

VARIABLES
    now,            \* wall clock (datetime.now()), in hours
    credsSet,       \* TELEGRAM_BOT_TOKEN and TELEGRAM_CHAT_ID are both set
    baselinesFile,  \* contents of BASELINES_FILE (a dict; empty when absent)
    historyFile,    \* contents of ALERTS_HISTORY_FILE (the dedup ledger)
    out,            \* what the last run_alert_check did
    argBaselines,   \* check_alerts: argument baselines
    argCurrent,     \* check_alerts: argument current
    result,         \* check_alerts: returned list
    db,             \* the SQLite tables daily_metrics, events,
                    \* percentile_cache, correlations, habit_streaks
    job,            \* position of job_recompute_analytics
    ret             \* what the last call of an analytics function returned

vars == <<now, credsSet, baselinesFile, historyFile, out,
          argBaselines, argCurrent, result, db, job, ret>>

\* the state of the alert engine and the state of the analytics
alertVars == <<now, credsSet, baselinesFile, historyFile, out,
               argBaselines, argCurrent, result>>
analyticsVars == <<db, job, ret>>

(***************************************************************************)
(* Bounds of the model.                                                    *)
(***************************************************************************)
MaxTime == 30
MaxScore == 100

(***************************************************************************)
(* Program constants.                                                      *)
(***************************************************************************)
DEDUP_HOURS == 12
BASELINE_MAX_AGE_HOURS == 24
MAX_MESSAGE_LENGTH == 4096

None == <<>>

Q(n) == <<n, 1>>

RECURSIVE GCD(_, _)
GCD(a, b) == IF b = 0 THEN a ELSE GCD(b, a % b)

QAbsInt(n) == IF n < 0 THEN -n ELSE n

\* the reduced form of the fraction n/d (d # 0), denominator positive
QNorm(n, d) ==
    LET g == GCD(QAbsInt(n), QAbsInt(d))
        s == IF d < 0 THEN -1 ELSE 1
    IN  <<(s * n) \div g, (s * d) \div g>>

QSub(a, b) == <<a[1] * b[2] - b[1] * a[2], a[2] * b[2]>>
QMul(a, b) == <<a[1] * b[1], a[2] * b[2]>>
QDiv(a, b) == IF b[1] > 0 THEN <<a[1] * b[2], a[2] * b[1]>>
                          ELSE <<-(a[1] * b[2]), -(a[2] * b[1])>>
QAbs(a)    == <<QAbsInt(a[1]), a[2]>>
QGe(a, b)  == a[1] * b[2] >= b[1] * a[2]
QGt(a, b)  == a[1] * b[2] > b[1] * a[2]
QLt(a, b)  == a[1] * b[2] < b[1] * a[2]

\* Python truthiness of an optional number: None and 0 are false
Truthy(x) == x # None /\ x[1] # 0

\* dict.get(key): None for a missing key
Get(d, k) == IF k \in DOMAIN d THEN d[k] ELSE None

EmptyDict == [k \in {} |-> None]

\* the database after the migrations: every table is empty
EmptyDb == [daily_metrics |-> <<>>, events |-> {},
            percentile_cache |-> {}, correlations |-> {},
            habit_streaks |-> {}]

\* job_recompute_analytics is not running
JobIdle == [state |-> "idle", order |-> <<>>, pos |-> 0, pending |-> <<>>,
            runs |-> 0, written |-> 0, interrupted_after |-> <<>>]

(***************************************************************************)
(* THRESHOLDS                                                              *)
(***************************************************************************)
THRESHOLDS ==
    [readiness_score_drop   |-> Q(20),
     sleep_score_drop       |-> Q(20),
     hrv_drop_pct           |-> Q(30),
     rhr_rise_bpm           |-> Q(10),
     temperature_deviation  |-> Q(1),
     stress_high_multiplier |-> Q(2),
     spo2_min               |-> Q(95)]

\* an alert dict; its 'message' text is kept as its length and the numbers
\* rendered into it
Alert(metric, isRed, len, shown) ==
    [metric |-> metric, severity |-> IF isRed THEN "red" ELSE "yellow",
     message |-> [length |-> len, shown |-> shown]]

\* one block of check_alerts for a score that alerts on a drop below baseline
DropAlert(baselines, current, key, threshold, len) ==
    IF Truthy(Get(baselines, key)) /\ Truthy(Get(current, key))
    THEN LET drop == QSub(baselines[key], current[key])
         IN  IF QGe(drop, threshold)
             THEN <<Alert(key, QGe(drop, Q(30)), len,
                          <<current[key], baselines[key]>>)>>
             ELSE <<>>
    ELSE <<>>

ReadinessAlert(baselines, current) ==
    DropAlert(baselines, current, "readiness_score",
              THRESHOLDS.readiness_score_drop, 39)

SleepAlert(baselines, current) ==
    DropAlert(baselines, current, "sleep_score",
              THRESHOLDS.sleep_score_drop, 35)

HrvAlert(baselines, current) ==
    IF Truthy(Get(baselines, "hrv")) /\ Truthy(Get(current, "hrv"))
    THEN LET drop_pct == QMul(QDiv(QSub(baselines["hrv"], current["hrv"]),
                                   baselines["hrv"]), Q(100))
         IN  IF QGe(drop_pct, THRESHOLDS.hrv_drop_pct)
             THEN <<Alert("hrv", QGe(drop_pct, Q(40)), 43,
                          <<current["hrv"], baselines["hrv"], drop_pct>>)>>
             ELSE <<>>
    ELSE <<>>

RestingHrAlert(baselines, current) ==
    IF Truthy(Get(baselines, "resting_hr")) /\ Truthy(Get(current, "resting_hr"))
    THEN LET rise == QSub(current["resting_hr"], baselines["resting_hr"])
         IN  IF QGe(rise, THRESHOLDS.rhr_rise_bpm)
             THEN <<Alert("resting_hr", QGe(rise, Q(15)), 50,
                          <<current["resting_hr"], baselines["resting_hr"],
                            rise>>)>>
             ELSE <<>>
    ELSE <<>>

\* variant: the deviation threshold taken as inclusive
TemperatureAlert_inclusive(baselines, current) ==
    IF Get(current, "temperature_deviation") # None
    THEN LET temp == current["temperature_deviation"]
         IN  IF QGe(QAbs(temp), THRESHOLDS.temperature_deviation)
             THEN <<Alert("temperature", QGt(QAbs(temp), <<3, 2>>), 41,
                          <<temp>>)>>
             ELSE <<>>
    ELSE <<>>

TemperatureAlert(baselines, current) ==
    IF Get(current, "temperature_deviation") # None
    THEN LET temp == current["temperature_deviation"]
         IN  IF QGt(QAbs(temp), THRESHOLDS.temperature_deviation)
             THEN <<Alert("temperature", QGt(QAbs(temp), <<3, 2>>), 41,
                          <<temp>>)>>
             ELSE <<>>
    ELSE <<>>

\* variant: the multiplier taken as a strict bound
StressAlert_strict(baselines, current) ==
    IF Truthy(Get(baselines, "stress_high")) /\ Truthy(Get(current, "stress_high"))
    THEN LET baseline == baselines["stress_high"]
             value    == current["stress_high"]
         IN  IF QGt(baseline, Q(0))
                /\ QGt(value, QMul(baseline, THRESHOLDS.stress_high_multiplier))
             THEN <<Alert("stress_high", QGe(value, QMul(baseline, Q(3))), 48,
                          <<value, baseline,
                            <<value[1] * baseline[2], value[2] * baseline[1]>> >>)>>
             ELSE <<>>
    ELSE <<>>

StressAlert(baselines, current) ==
    IF Truthy(Get(baselines, "stress_high")) /\ Truthy(Get(current, "stress_high"))
    THEN LET baseline == baselines["stress_high"]
             value    == current["stress_high"]
         IN  IF QGt(baseline, Q(0))
                /\ QGe(value, QMul(baseline, THRESHOLDS.stress_high_multiplier))
             THEN <<Alert("stress_high", QGe(value, QMul(baseline, Q(3))), 48,
                          <<value, baseline,
                            <<value[1] * baseline[2], value[2] * baseline[1]>> >>)>>
             ELSE <<>>
    ELSE <<>>

Spo2Alert(baselines, current) ==
    IF Get(current, "spo2") # None
    THEN LET value == current["spo2"]
         IN  IF QLt(value, THRESHOLDS.spo2_min)
             THEN <<Alert("spo2", QLt(value, Q(92)), 32, <<value>>)>>
             ELSE <<>>
    ELSE <<>>

\* check_alerts(baselines, current): the candidate alerts, in source order
check_alerts(baselines, current) ==
    ReadinessAlert(baselines, current) \o SleepAlert(baselines, current)
    \o HrvAlert(baselines, current) \o RestingHrAlert(baselines, current)
    \o TemperatureAlert(baselines, current) \o StressAlert(baselines, current)
    \o Spo2Alert(baselines, current)

(***************************************************************************)
(* Deduplication, formatting, sending                                      *)
(***************************************************************************)
Stamp(t) == <<t>>

\* variant: the window taken in minutes instead of hours
filter_duplicates_minutes(alerts, history, tnow) ==
    LET cutoff == tnow - (DEDUP_HOURS \div 60)
        Kept(alert) ==
            LET last_sent == Get(history, alert.metric)
            IN  ~(last_sent # None /\ last_sent[1] > cutoff)
    IN  SelectSeq(alerts, Kept)

\* _filter_duplicates(alerts, history), with datetime.now() = tnow
filter_duplicates(alerts, history, tnow) ==
    LET cutoff == tnow - DEDUP_HOURS
        Kept(alert) ==
            LET last_sent == Get(history, alert.metric)
            IN  ~(last_sent # None /\ last_sent[1] > cutoff)
    IN  SelectSeq(alerts, Kept)

RECURSIVE LinesLength(_)
LinesLength(alerts) ==
    IF alerts = <<>> THEN 0
    ELSE (1 + 1 + Head(alerts).message.length + 1)
         + LinesLength(Tail(alerts))

\* variant: the red recommendation only when every alert is red
format_alert_message_all(alerts) ==
    LET has_red == \A i \in 1..Len(alerts) : alerts[i].severity = "red"
    IN  [lines |-> [i \in 1..Len(alerts) |->
                      [icon |-> IF alerts[i].severity = "red" THEN "red"
                                ELSE "yellow",
                       metric |-> alerts[i].metric]],
         recommendation |-> IF has_red THEN "red" ELSE "yellow",
         length |-> 22 + LinesLength(alerts) + 24
                    + (IF has_red THEN 71 ELSE 50)]

\* _format_alert_message(alerts): one line per alert (icon, text), then one
\* recommendation; length is len(message)
format_alert_message(alerts) ==
    LET has_red == \E i \in 1..Len(alerts) : alerts[i].severity = "red"
    IN  [lines |-> [i \in 1..Len(alerts) |->
                      [icon |-> IF alerts[i].severity = "red" THEN "red"
                                ELSE "yellow",
                       metric |-> alerts[i].metric]],
         recommendation |-> IF has_red THEN "red" ELSE "yellow",
         length |-> 22 + LinesLength(alerts) + 24
                    + (IF has_red THEN 71 ELSE 50)]

\* _split_message(text): the chunk lengths of a text of the given length.
\* A text above the limit is cut at the last newline before the limit, or
\* at the limit itself when there is none (the case modelled here).
RECURSIVE split_message(_)
split_message(length) ==
    IF length <= MAX_MESSAGE_LENGTH THEN <<length>>
    ELSE <<MAX_MESSAGE_LENGTH>> \o split_message(length - MAX_MESSAGE_LENGTH)

\* send_telegram_message(text): firstFail is the index of the first chunk
\* whose POST does not return 200 (0: every POST returns 200).
\* posted counts the chunks Telegram accepted.
send_telegram_message(length, firstFail) ==
    IF ~credsSet THEN [success |-> FALSE, posted |-> 0]
    ELSE LET messages == split_message(length)
         IN  IF firstFail \in 1..Len(messages)
             THEN [success |-> FALSE, posted |-> firstFail - 1]
             ELSE [success |-> TRUE, posted |-> Len(messages)]

(***************************************************************************)
(* Oura API responses.  A response is the list of rows under 'data'; the   *)
(* empty list also stands for a failed request (None), which every caller  *)
(* treats alike.  A feed gives one response per endpoint.                  *)
(***************************************************************************)
Endpoints == {"daily_readiness", "daily_sleep", "sleep", "daily_stress",
              "daily_spo2"}

RECURSIVE QSum(_)
QSum(vals) ==
    IF vals = <<>> THEN Q(0)
    ELSE LET r == QSum(Tail(vals))
             h == Head(vals)
         IN  <<h[1] * r[2] + r[1] * h[2], h[2] * r[2]>>

\* statistics.mean
Mean(vals) == LET s == QSum(vals) IN QNorm(s[1], s[2] * Len(vals))

\* [d.get(field) for d in rows if d.get(field)]
TruthyValues(rows, field) ==
    LET Has(d) == Truthy(Get(d, field))
        sel == SelectSeq(rows, Has)
    IN  [i \in 1..Len(sel) |-> sel[i][field]]

\* [d.get(field) for d in rows if d.get(field) is not None]
NotNoneValues(rows, field) ==
    LET Has(d) == Get(d, field) # None
        sel == SelectSeq(rows, Has)
    IN  [i \in 1..Len(sel) |-> sel[i][field]]

BaselineEntry(key, vals) ==
    IF vals # <<>> THEN key :> Mean(vals) ELSE EmptyDict

\* compute_baselines(), with the responses of its five requests and the
\* time at which it stamps updated_at
compute_baselines(feed, tstamp) ==
    BaselineEntry("readiness_score",
                  TruthyValues(feed["daily_readiness"], "score"))
    @@ BaselineEntry("temperature_deviation",
                     NotNoneValues(feed["daily_readiness"], "temperature_deviation"))
    @@ BaselineEntry("sleep_score", TruthyValues(feed["daily_sleep"], "score"))
    @@ BaselineEntry("hrv", TruthyValues(feed["sleep"], "average_hrv"))
    @@ BaselineEntry("resting_hr", TruthyValues(feed["sleep"], "lowest_heart_rate"))
    @@ BaselineEntry("stress_high", NotNoneValues(feed["daily_stress"], "stress_high"))
    @@ BaselineEntry("spo2", TruthyValues(feed["daily_spo2"], "average"))
    @@ ("updated_at" :> Stamp(tstamp))

Last(rows) == rows[Len(rows)]

\* get_current_values(), with the responses of its five requests
get_current_values(feed) ==
    (IF feed["daily_readiness"] # <<>>
     THEN ("readiness_score" :> Get(Last(feed["daily_readiness"]), "score"))
          @@ ("temperature_deviation" :>
                Get(Last(feed["daily_readiness"]), "temperature_deviation"))
     ELSE EmptyDict)
    @@ (IF feed["daily_sleep"] # <<>>
        THEN "sleep_score" :> Get(Last(feed["daily_sleep"]), "score")
        ELSE EmptyDict)
    @@ (IF feed["sleep"] # <<>>
        THEN ("hrv" :> Get(Last(feed["sleep"]), "average_hrv"))
             @@ ("resting_hr" :> Get(Last(feed["sleep"]), "lowest_heart_rate"))
        ELSE EmptyDict)
    @@ (IF feed["daily_stress"] # <<>>
        THEN "stress_high" :> Get(Last(feed["daily_stress"]), "stress_high")
        ELSE EmptyDict)
    @@ (IF feed["daily_spo2"] # <<>>
        THEN "spo2" :> Get(Last(feed["daily_spo2"]), "average")
        ELSE EmptyDict)

(***************************************************************************)
(* The responses the Oura API gives in this model.                         *)
(***************************************************************************)
ReadinessRow(score, temp) == [score |-> score, temperature_deviation |-> temp]
SleepRow(score) == [score |-> score]
SessionRow(hrv, rhr) == [average_hrv |-> hrv, lowest_heart_rate |-> rhr]
StressRow(high) == [stress_high |-> high]
Spo2Row(avg) == [average |-> avg]

Feed(readiness, sleep, sessions, stress, spo2) ==
    [e \in Endpoints |->
        CASE e = "daily_readiness" -> readiness
          [] e = "daily_sleep"     -> sleep
          [] e = "sleep"           -> sessions
          [] e = "daily_stress"    -> stress
          [] e = "daily_spo2"      -> spo2]

\* every request fails or returns no rows
Down == Feed(<<>>, <<>>, <<>>, <<>>, <<>>)

HistFull ==
    Feed(<<ReadinessRow(Q(80), Q(0)), ReadinessRow(Q(81), <<1, 10>>)>>,
         <<SleepRow(Q(80))>>,
         <<SessionRow(Q(50), Q(55))>>,
         <<StressRow(Q(0)), StressRow(Q(3600))>>,
         <<Spo2Row(Q(97))>>)

\* rows with null and zero fields, three endpoints down
HistPartial ==
    Feed(<<ReadinessRow(None, None), ReadinessRow(Q(0), Q(0)),
           ReadinessRow(Q(80), None)>>,
         <<>>, <<SessionRow(Q(50), None)>>, <<>>, <<>>)

HistFeeds == {Down, HistFull, HistPartial}

CurNormal ==
    Feed(<<ReadinessRow(Q(80), Q(0))>>, <<SleepRow(Q(80))>>,
         <<SessionRow(Q(50), Q(55))>>, <<StressRow(Q(1800))>>,
         <<Spo2Row(Q(97))>>)

\* a row is there but its fields are null
CurNull == Feed(<<ReadinessRow(None, None)>>, <<>>, <<>>, <<>>, <<>>)

CurLow == Feed(<<ReadinessRow(Q(45), Q(0))>>, <<>>, <<>>, <<>>, <<>>)

CurBad ==
    Feed(<<ReadinessRow(Q(80), Q(0)), ReadinessRow(Q(55), Q(0))>>,
         <<SleepRow(Q(80))>>, <<SessionRow(Q(30), Q(55))>>, <<>>,
         <<Spo2Row(Q(94))>>)

CurSpo2 == Feed(<<>>, <<>>, <<>>, <<>>, <<Spo2Row(Q(91))>>)

CurFeeds == {Down, CurNormal, CurNull, CurLow, CurBad, CurSpo2}

Delays == {0, 6}
TickSteps == {6, 12}

NoMessage == [lines |-> <<>>, recommendation |-> "none", length |-> 0]

\* the record of a run: the return path taken, whether the baselines were
\* recomputed, the alerts before and after deduplication, the message, the
\* number of send_telegram_message calls and of chunks Telegram accepted;
\* returned holds in the state right after run_alert_check returns
Idle == [path |-> "idle", returned |-> FALSE, updated |-> FALSE,
         candidates |-> <<>>, batch |-> <<>>, message |-> NoMessage,
         calls |-> 0, posted |-> 0]

\* variant: only the first alert of the batch is marked
MarkSent_first(history, alerts, tstamp) ==
    IF alerts = <<>> THEN history
    ELSE (Head(alerts).metric :> Stamp(tstamp)) @@ history

\* history[alert['metric']] = now_str for every alert of the batch
RECURSIVE MarkSent(_, _, _)
MarkSent(history, alerts, tstamp) ==
    IF alerts = <<>> THEN history
    ELSE MarkSent((Head(alerts).metric :> Stamp(tstamp)) @@ history,
                  Tail(alerts), tstamp)

\* variant: a snapshot of exactly the maximum age still counts as fresh
should_update_strict(baselines, tnow) ==
    ~(Get(baselines, "updated_at") # None
      /\ tnow - baselines["updated_at"][1] <= BASELINE_MAX_AGE_HOURS)

\* the staleness test of run_alert_check at time tnow
should_update(baselines, tnow) ==
    ~(Get(baselines, "updated_at") # None
      /\ tnow - baselines["updated_at"][1] < BASELINE_MAX_AGE_HOURS)

\* variant: the ledger is marked whatever the sender reports
UpdatedHistory_always(history, alerts, success, tstamp) ==
    MarkSent(history, alerts, tstamp)

\* variant: a successful send stamps every entry of the ledger anew
UpdatedHistory_restamp(history, alerts, success, tstamp) ==
    IF success
    THEN [m \in DOMAIN MarkSent(history, alerts, tstamp) |-> Stamp(tstamp)]
    ELSE history

\* the ledger after the send: marked on success, untouched on failure
UpdatedHistory(history, alerts, success, tstamp) ==
    IF success THEN MarkSent(history, alerts, tstamp) ELSE history

(***************************************************************************)
(* run_alert_check().  hist and cur are the responses to the requests of   *)
(* compute_baselines and get_current_values, dFetch the time the requests  *)
(* take.                                                                   *)
(***************************************************************************)
RunAlertCheck(hist, cur, dFetch) ==
    LET loaded == baselinesFile
        stale == should_update(loaded, now)
        tFetch == now + dFetch
        history == historyFile
        ran == [Idle EXCEPT !.returned = TRUE, !.updated = stale]
    IN  /\ tFetch <= MaxTime
        /\ now' = tFetch
        /\ UNCHANGED <<credsSet, argBaselines, argCurrent, result>>
        /\ UNCHANGED analyticsVars
        /\ \E baselines \in {IF stale
                             THEN compute_baselines(hist, tFetch)
                             ELSE loaded} :
           \E current \in {get_current_values(cur)} :
           \E alerts \in {check_alerts(baselines, current)} :
           \E filtered \in {filter_duplicates(alerts, history, tFetch)} :
           \E message \in {format_alert_message(filtered)} :
           /\ baselinesFile' = baselines
           /\ IF current = EmptyDict
              THEN /\ out' = [ran EXCEPT !.path = "no_current"]
                   /\ UNCHANGED historyFile
              ELSE IF alerts = <<>>
              THEN /\ out' = [ran EXCEPT !.path = "no_alerts"]
                   /\ UNCHANGED historyFile
              ELSE IF filtered = <<>>
              THEN /\ out' = [ran EXCEPT !.path = "deduplicated",
                                         !.candidates = alerts]
                   /\ UNCHANGED historyFile
              ELSE \E firstFail \in 0..Len(split_message(message.length)) :
                   LET sent == send_telegram_message(message.length, firstFail)
                   IN  /\ out' = [ran EXCEPT
                                    !.path = IF sent.success THEN "sent"
                                             ELSE "send_failed",
                                    !.candidates = alerts,
                                    !.batch = filtered,
                                    !.message = message,
                                    !.calls = 1,
                                    !.posted = sent.posted]
                       /\ historyFile' = UpdatedHistory(history, filtered,
                                                        sent.success, tFetch)

\* time passes between two checks
Tick(d) ==
    /\ now + d <= MaxTime
    /\ now' = now + d
    /\ out' = [out EXCEPT !.returned = FALSE]
    /\ UNCHANGED <<credsSet, baselinesFile, historyFile,
                   argBaselines, argCurrent, result>>
    /\ UNCHANGED analyticsVars

Init ==
    /\ now = 0
    /\ credsSet \in BOOLEAN
    /\ baselinesFile = EmptyDict
    /\ historyFile = EmptyDict
    /\ out = Idle
    /\ argBaselines = EmptyDict
    /\ argCurrent = EmptyDict
    /\ result = <<>>
    /\ db = EmptyDb
    /\ job = JobIdle
    /\ ret = None

Next ==
    \/ \E hist \in HistFeeds, cur \in CurFeeds, dFetch \in Delays :
          RunAlertCheck(hist, cur, dFetch)
    \/ \E d \in TickSteps : Tick(d)

Spec == Init /\ [][Next]_vars

(***************************************************************************)
(* check_alerts as a function of its arguments: the arguments are drawn    *)
(* at the start, the call is one step.  One metric (the focus) ranges over *)
(* its whole range while the others are absent or at fixed alarming        *)
(* values.                                                                 *)
(***************************************************************************)
Metrics == {"readiness_score", "sleep_score", "hrv", "resting_hr",
            "temperature", "stress_high", "spo2"}

\* the key of baselines and current that an alert's metric is read from
Key(m) == IF m = "temperature" THEN "temperature_deviation" ELSE m

Scores == {Q(i) : i \in 0..MaxScore}

BaseRange(m) ==
    CASE m \in {"readiness_score", "sleep_score"} ->
            {None, Q(0), Q(20), Q(80), <<161, 2>>, Q(MaxScore)}
      [] m = "hrv" -> {None, Q(0), Q(10), Q(50), <<101, 2>>, Q(MaxScore)}
      [] m = "resting_hr" -> {None, Q(0), Q(40), Q(55), <<111, 2>>}
      [] m = "temperature" -> {None, Q(0)}
      [] m = "stress_high" -> {None, Q(0), Q(10), Q(25), <<51, 2>>}
      [] m = "spo2" -> {None, Q(97)}

CurRange(m) ==
    CASE m = "temperature" ->
            {None} \cup {<<i, 100>> : i \in (-2 * MaxScore)..(2 * MaxScore)}
      [] m = "spo2" -> {None} \cup {<<i, 2>> : i \in 0..(2 * MaxScore)}
      [] OTHER -> {None} \cup Scores

BgBase ==
    [readiness_score |-> Q(80), sleep_score |-> Q(80), hrv |-> Q(50),
     resting_hr |-> Q(55), temperature_deviation |-> Q(0),
     stress_high |-> Q(1800), spo2 |-> Q(97)]

BgCur ==
    [readiness_score |-> Q(45), sleep_score |-> Q(45), hrv |-> Q(20),
     resting_hr |-> Q(75), temperature_deviation |-> Q(2),
     stress_high |-> Q(7200), spo2 |-> Q(90)]

Backgrounds(focus) ==
    {{}, Metrics \ {focus}} \cup {{m} : m \in Metrics \ {focus}}

\* a dict holding the focus key (unless its value is a missing key) and the
\* background keys
ArgDict(focus, value, keyMissing, bg, bgValues) ==
    [k \in (IF keyMissing THEN {} ELSE {Key(focus)}) \cup {Key(m) : m \in bg}
        |-> IF k = Key(focus) THEN value ELSE bgValues[k]]

CheckInit ==
    /\ now = 0
    /\ credsSet = FALSE
    /\ baselinesFile = EmptyDict
    /\ historyFile = EmptyDict
    /\ out = Idle
    /\ result = <<>>
    /\ db = EmptyDb
    /\ job = JobIdle
    /\ ret = None
    /\ \E focus \in Metrics :
       \E bg \in Backgrounds(focus), b \in BaseRange(focus), v \in CurRange(focus) :
          /\ argBaselines = ArgDict(focus, b, b = None, bg, BgBase)
          /\ argCurrent = ArgDict(focus, v, FALSE, bg, BgCur)

ApplyCheckAlerts ==
    /\ out.path = "idle"
    /\ result' = check_alerts(argBaselines, argCurrent)
    /\ out' = [out EXCEPT !.path = "checked"]
    /\ UNCHANGED <<now, credsSet, baselinesFile, historyFile,
                   argBaselines, argCurrent>>
    /\ UNCHANGED analyticsVars

CheckNext == ApplyCheckAlerts

CheckSpec == CheckInit /\ [][CheckNext]_vars

(***************************************************************************)
(* Properties of check_alerts (checked under CheckSpec)                    *)
(***************************************************************************)
Applied == out.path = "checked"

AlertsFor(alerts, m) ==
    LET IsM(a) == a.metric = m IN SelectSeq(alerts, IsM)

HasAlert(alerts, m) == AlertsFor(alerts, m) # <<>>

IsRed(alerts, m) == AlertsFor(alerts, m)[1].severity = "red"

\* the baseline and the latest value of metric m in the arguments
ArgB(m) == Get(argBaselines, Key(m))
ArgV(m) == Get(argCurrent, Key(m))

\* what the threshold table asks of a signal: it is emitted iff trigger,
\* at most once, and it is red iff red
Emits(m, trigger, red) ==
    /\ HasAlert(result, m) <=> trigger
    /\ Len(AlertsFor(result, m)) <= 1
    /\ HasAlert(result, m) => (IsRed(result, m) <=> red)

\* C6: whenever a baseline b and a latest value v are both given (v = 0
\* included), a readiness_score / sleep_score alert is emitted iff
\* b - v >= 20 and is red iff b - v >= 30, and a resting_hr alert is emitted
\* iff v - b >= 10 and is red iff v - b >= 15.
C6_DifferenceSignals ==
    Applied =>
        /\ \A m \in {"readiness_score", "sleep_score"} :
              (ArgB(m) # None /\ ArgV(m) # None) =>
                  Emits(m, QGe(QSub(ArgB(m), ArgV(m)), Q(20)),
                           QGe(QSub(ArgB(m), ArgV(m)), Q(30)))
        /\ (ArgB("resting_hr") # None /\ ArgV("resting_hr") # None) =>
              Emits("resting_hr",
                    QGe(QSub(ArgV("resting_hr"), ArgB("resting_hr")), Q(10)),
                    QGe(QSub(ArgV("resting_hr"), ArgB("resting_hr")), Q(15)))

\* C7: for a positive baseline b and a latest HRV value v (v = 0 included),
\* an hrv alert is emitted iff (b - v) / b >= 30% and is red iff
\* (b - v) / b >= 40%.
C7_HrvDrop ==
    (Applied /\ ArgB("hrv") # None /\ ArgV("hrv") # None
       /\ QGt(ArgB("hrv"), Q(0))) =>
        Emits("hrv",
              QGe(QMul(QSub(ArgB("hrv"), ArgV("hrv")), Q(100)),
                  QMul(Q(30), ArgB("hrv"))),
              QGe(QMul(QSub(ArgB("hrv"), ArgV("hrv")), Q(100)),
                  QMul(Q(40), ArgB("hrv"))))

StressTrigger(k) ==
    /\ ArgB("stress_high") # None
    /\ ArgV("stress_high") # None
    /\ QGt(ArgB("stress_high"), Q(0))
    /\ QGe(ArgV("stress_high"), QMul(Q(k), ArgB("stress_high")))

\* every number rendered into a message is a well-defined quotient
NoDivisionByZero ==
    \A i \in 1..Len(result) :
       \A j \in 1..Len(result[i].message.shown) :
          result[i].message.shown[j][2] # 0

\* C8: a stress_high alert is emitted iff the baseline is > 0 and
\* value >= 2 x baseline, red iff value >= 3 x baseline; with a baseline of
\* 0 or none there is no stress alert, and nothing is divided by zero.
C8_StressHigh ==
    Applied =>
        /\ Emits("stress_high", StressTrigger(2), StressTrigger(3))
        /\ (ArgB("stress_high") = None \/ ArgB("stress_high")[1] = 0)
              => ~HasAlert(result, "stress_high")
        /\ NoDivisionByZero

C8_Witness ==
    /\ Applied
    /\ HasAlert(result, "stress_high")
    /\ ~IsRed(result, "stress_high")
    /\ ArgB("stress_high") = <<51, 2>>
    /\ HasAlert(result, "spo2")

\* the arguments with every metric but m removed
OnlyMetric(d, m) == [k \in DOMAIN d \cap {Key(m)} |-> d[k]]

\* C9: a temperature alert is emitted iff |value| > 1.0 and is red iff
\* |value| > 1.5, an spo2 alert iff value < 95 and is red iff value < 92,
\* with or without a baseline; and the alert of each metric is the one
\* check_alerts gives when the other metrics are absent.
C9_AbsoluteSignals ==
    Applied =>
        /\ Emits("temperature",
                 ArgV("temperature") # None
                    /\ QGt(QAbs(ArgV("temperature")), Q(1)),
                 ArgV("temperature") # None
                    /\ QGt(QAbs(ArgV("temperature")), <<3, 2>>))
        /\ Emits("spo2",
                 ArgV("spo2") # None /\ QLt(ArgV("spo2"), Q(95)),
                 ArgV("spo2") # None /\ QLt(ArgV("spo2"), Q(92)))
        /\ \A m \in Metrics :
              AlertsFor(result, m)
                 = check_alerts(OnlyMetric(argBaselines, m),
                                OnlyMetric(argCurrent, m))

\* exactly 1.5 degrees gives a yellow temperature alert, next to a red
\* spo2 alert and with no baseline at all
C9_Witness ==
    /\ Applied
    /\ ArgV("temperature") = <<150, 100>>
    /\ HasAlert(result, "temperature")
    /\ ~IsRed(result, "temperature")
    /\ HasAlert(result, "spo2")
    /\ ArgB("temperature") = None

(***************************************************************************)
(* Properties of run_alert_check (checked under Spec and LiveSpec)         *)
(***************************************************************************)
InBatch(o, m) == \E i \in 1..Len(o.batch) : o.batch[i].metric = m

IsCandidate(o, m) == \E i \in 1..Len(o.candidates) : o.candidates[i].metric = m

\* C1: in every run, a candidate whose ledger entry is less than
\* DEDUP_HOURS old is suppressed; when every candidate is suppressed nothing
\* is sent and the ledger is not written; and a ledger entry is only ever
\* replaced by one at least DEDUP_HOURS later.
C1_DedupWindow ==
    [][out'.returned =>
         /\ \A m \in Metrics :
               (/\ IsCandidate(out', m)
                /\ Get(historyFile, m) # None
                /\ now' - historyFile[m][1] < DEDUP_HOURS)
               => ~InBatch(out', m)
         /\ (out'.candidates # <<>> /\ out'.batch = <<>>)
               => (/\ out'.path = "deduplicated"
                   /\ out'.calls = 0
                   /\ out'.posted = 0
                   /\ historyFile' = historyFile)
         /\ \A m \in Metrics :
               (/\ Get(historyFile, m) # None
                /\ Get(historyFile', m) # Get(historyFile, m))
               => historyFile'[m][1] - historyFile[m][1] >= DEDUP_HOURS
      ]_vars

\* a check that found two candidates and suppressed both
C1_Witness ==
    /\ out.returned
    /\ out.path = "deduplicated"
    /\ Len(out.candidates) >= 2
    /\ \A m \in Metrics :
          IsCandidate(out, m) => now - historyFile[m][1] < DEDUP_HOURS

\* The same actions on fewer responses, for the properties of behaviours.
LiveNext ==
    \/ \E hist \in {HistFull}, cur \in {Down, CurSpo2, CurBad}, dFetch \in Delays :
          RunAlertCheck(hist, cur, dFetch)
    \/ \E d \in TickSteps : Tick(d)

\* a check at which the source reports a low SpO2 and the sender accepts
\* the message
DeliveringSpo2 ==
    /\ RunAlertCheck(HistFull, CurSpo2, 0)
    /\ out'.path = "sent"

\* The checks go on for ever (the job is on an interval trigger).  The
\* fairness condition is the premise of the claim about retries: the low
\* SpO2 persists and the sender succeeds at some check made while it does.
LiveSpec == Init /\ [][LiveNext]_vars /\ WF_vars(DeliveringSpo2)

\* C2: a failed send writes nothing to the ledger; at the next check every
\* alert of the failed batch that is triggered again is in the batch again
\* and the message is sent again; and if the sender succeeds at some later
\* check while the condition persists, the alert is delivered.
C2_FailureLeavesLedger ==
    /\ [][out'.returned =>
            /\ out'.path = "send_failed" => historyFile' = historyFile
            /\ out.path = "send_failed" =>
                  \A m \in Metrics :
                     (InBatch(out, m) /\ IsCandidate(out', m))
                     => (InBatch(out', m) /\ out'.calls = 1)
         ]_vars
    /\ (credsSet /\ out.path = "send_failed" /\ InBatch(out, "spo2"))
          ~> (out.path = "sent" /\ InBatch(out, "spo2"))

\* the POST failed although the credentials are set
C2_Witness ==
    /\ out.returned
    /\ credsSet
    /\ out.path = "send_failed"
    /\ InBatch(out, "spo2")
    /\ Get(historyFile, "readiness_score") # None

\* C3: a step either leaves the ledger as it is, or is a run that sets the
\* entry of every metric of its batch to the time of the run and leaves
\* every other entry as it is.
C3_LedgerAllOrNothing ==
    [][\/ historyFile' = historyFile
       \/ /\ out'.returned
          /\ out'.path = "sent"
          /\ \A m \in Metrics :
                Get(historyFile', m) = IF InBatch(out', m) THEN Stamp(now')
                                       ELSE Get(historyFile, m)
      ]_vars

C3_Witness ==
    /\ out.returned
    /\ out.path = "sent"
    /\ Len(out.batch) >= 3
    /\ \A m \in Metrics : InBatch(out, m) => historyFile[m] = Stamp(now)

BaselineMetrics == {"readiness_score", "sleep_score", "hrv", "resting_hr",
                    "stress_high"}

\* C4: a run recomputes and persists the baselines exactly when the
\* persisted ones are absent or at least 24 hours old, and compares against
\* the recomputed ones; a younger snapshot is left as it is; nothing else
\* changes the persisted baselines, and two recomputations are at least 24
\* hours apart.
C4_BaselineFreshness ==
    [][/\ out'.returned =>
            LET stale == \/ Get(baselinesFile, "updated_at") = None
                         \/ now - baselinesFile["updated_at"][1]
                               >= BASELINE_MAX_AGE_HOURS
            IN  /\ out'.updated <=> stale
                /\ stale => Get(baselinesFile', "updated_at") = Stamp(now')
                /\ ~stale => baselinesFile' = baselinesFile
                /\ \A m \in BaselineMetrics :
                      IsCandidate(out', m) => Truthy(Get(baselinesFile', m))
       /\ baselinesFile' # baselinesFile =>
            /\ out'.returned
            /\ out'.updated
            /\ Get(baselinesFile, "updated_at") # None =>
                  baselinesFile'["updated_at"][1]
                     - baselinesFile["updated_at"][1] >= BASELINE_MAX_AGE_HOURS
      ]_vars

\* the second recomputation, 24 hours or more after the first
C4_Witness ==
    /\ out.returned
    /\ out.updated
    /\ now >= BASELINE_MAX_AGE_HOURS
    /\ baselinesFile["updated_at"] = Stamp(now)
    /\ IsCandidate(out, "readiness_score")

\* C5: a check during which every request to the source yields nothing
\* ends with no alerts and leaves the persisted baselines (values and
\* updated_at) as they were.
C5_UpstreamUnavailable ==
    [][(/\ Get(baselinesFile, "readiness_score") # None
        /\ \E dFetch \in Delays : RunAlertCheck(Down, Down, dFetch))
       => (/\ out'.path = "no_current"
           /\ historyFile' = historyFile
           /\ baselinesFile' = baselinesFile)
      ]_vars

\* C10: a run calls the sender at most once and Telegram gets at most one
\* message; the message has one line per alert that survived
\* deduplication, in order, with the icon of its severity, and one
\* recommendation, the red one iff some surviving alert is red.
C10_OneMessage ==
    /\ out.calls <= 1
    /\ out.posted <= out.calls
    /\ out.calls = 1 <=> out.batch # <<>>
    /\ out.message.length <= MAX_MESSAGE_LENGTH
    /\ \A i \in 1..Len(out.batch) : IsCandidate(out, out.batch[i].metric)
    /\ out.batch # <<>> =>
          /\ Len(out.message.lines) = Len(out.batch)
          /\ \A i \in 1..Len(out.batch) :
                /\ out.message.lines[i].metric = out.batch[i].metric
                /\ out.message.lines[i].icon = out.batch[i].severity
          /\ out.message.recommendation \in {"red", "yellow"}
          /\ out.message.recommendation = "red"
                <=> \E i \in 1..Len(out.batch) : out.batch[i].severity = "red"

\* a delivered message with yellow lines and a red line
C10_Witness ==
    /\ out.path = "sent"
    /\ out.posted = 1
    /\ Len(out.message.lines) = 3
    /\ out.message.lines[1].icon = "yellow"
    /\ out.message.lines[2].icon = "red"
    /\ out.message.recommendation = "red"

(***************************************************************************)
(* The analytics over the SQLite tables.  daily_metrics is kept as the     *)
(* list of its rows in day order (one row per day, day is UNIQUE); a row   *)
(* is a dict of its non-NULL columns, day is the number of the calendar    *)
(* day.  events is kept as the set of its distinct (event_type, day, hour) *)
(* triples, which is all the queries (SELECT DISTINCT) see of it.  A       *)
(* derived table is the set of its rows; key holds the columns of the      *)
(* table's UNIQUE constraint.                                              *)
(***************************************************************************)
QAdd(a, b) == <<a[1] * b[2] + b[1] * a[2], a[2] * b[2]>>
QLe(a, b)  == a[1] * b[2] <= b[1] * a[2]
QEq(a, b)  == a[1] * b[2] = b[1] * a[2]
QRed(a)    == QNorm(a[1], a[2])

\* the alert engine at rest, for the specifications of the analytics
AlertIdle ==
    /\ now = 0
    /\ credsSet = FALSE
    /\ baselinesFile = EmptyDict
    /\ historyFile = EmptyDict
    /\ out = Idle
    /\ argBaselines = EmptyDict
    /\ argCurrent = EmptyDict
    /\ result = <<>>

RECURSIVE InsertSorted(_, _)
InsertSorted(x, s) ==
    IF s = <<>> THEN <<x>>
    ELSE IF QLe(x, Head(s)) THEN <<x>> \o s
    ELSE <<Head(s)>> \o InsertSorted(x, Tail(s))

\* sorted(values)
RECURSIVE sorted(_)
sorted(vals) ==
    IF vals = <<>> THEN <<>>
    ELSE InsertSorted(Head(vals), sorted(Tail(vals)))

RECURSIVE Concat(_)
Concat(seqs) ==
    IF seqs = <<>> THEN <<>> ELSE Head(seqs) \o Concat(Tail(seqs))

\* one execute(INSERT ... ON CONFLICT(key) DO UPDATE SET ...)
Upsert(table, key, row) == [table |-> table, key |-> key, row |-> row]

\* variant: a plain INSERT into a table without the UNIQUE constraint
ApplyWrite_insert(d, w) ==
    [d EXCEPT ![w.table] = @ \cup {("key" :> w.key) @@ w.row}]

\* the database after one upsert: a row with the key is replaced (DO UPDATE
\* SET every column), otherwise the row is inserted
ApplyWrite(d, w) ==
    [d EXCEPT ![w.table] = {r \in @ : r["key"] # w.key}
                           \cup {("key" :> w.key) @@ w.row}]

\* SELECT * FROM table WHERE key = ?, as a dict from the keys to the rows
ByKey(table) ==
    [k \in {r["key"] : r \in table} |-> CHOOSE r \in table : r["key"] = k]

RECURSIVE ApplyWrites(_, _)
ApplyWrites(d, writes) ==
    IF writes = <<>> THEN d
    ELSE ApplyWrites(ApplyWrite(d, Head(writes)), Tail(writes))

(***************************************************************************)
(* src/bot/analysis/percentiles.py                                         *)
(***************************************************************************)
TRACKED_METRICS ==
    <<"sleep_score", "readiness_score", "activity_score",
      "total_sleep_duration", "deep_sleep_duration", "rem_sleep_duration",
      "average_hrv", "lowest_heart_rate", "steps",
      "sleep_efficiency", "sleep_latency", "temperature_deviation",
      "stress_high">>

\* variant: the order statistic below the rank, without interpolation
percentile_lower(sorted_vals, p) ==
    LET n == Len(sorted_vals)
        f == ((n - 1) * p) \div 100
        c == f + 1
    IN  IF c >= n THEN sorted_vals[n] ELSE sorted_vals[f + 1]

\* the nested function percentile(p) of compute_percentiles, over its
\* sorted_vals (Python indexes from 0, sequences here from 1)
percentile(sorted_vals, p) ==
    LET n == Len(sorted_vals)
        k == <<(n - 1) * p, 100>>
        f == ((n - 1) * p) \div 100
        c == f + 1
    IN  IF c >= n THEN sorted_vals[n]
        ELSE QRed(QAdd(sorted_vals[f + 1],
                       QMul(QSub(k, Q(f)),
                            QSub(sorted_vals[c + 1], sorted_vals[f + 1]))))

PercentileRow(sorted_vals, tstamp) ==
    [p10 |-> percentile(sorted_vals, 10),
     p25 |-> percentile(sorted_vals, 25),
     p50 |-> percentile(sorted_vals, 50),
     p75 |-> percentile(sorted_vals, 75),
     p90 |-> percentile(sorted_vals, 90),
     count |-> Len(sorted_vals),
     updated_at |-> Stamp(tstamp)]

\* variant: a metric is computed from six values on
percentile_writes_six(d, tstamp) ==
    LET rows == d.daily_metrics
        MetricWrite(metric) ==
            LET values == NotNoneValues(rows, metric)
            IN  IF Len(values) < 6 THEN <<>>
                ELSE <<Upsert("percentile_cache", metric,
                              PercentileRow(sorted(values), tstamp))>>
    IN  IF Len(rows) < 6 THEN <<>>
        ELSE Concat([i \in 1..Len(TRACKED_METRICS) |->
                        MetricWrite(TRACKED_METRICS[i])])

\* the upserts of compute_percentiles(), in order, run at time tstamp
percentile_writes(d, tstamp) ==
    LET rows == d.daily_metrics
        MetricWrite(metric) ==
            LET values == NotNoneValues(rows, metric)
            IN  IF Len(values) < 7 THEN <<>>
                ELSE <<Upsert("percentile_cache", metric,
                              PercentileRow(sorted(values), tstamp))>>
    IN  IF Len(rows) < 7 THEN <<>>
        ELSE Concat([i \in 1..Len(TRACKED_METRICS) |->
                        MetricWrite(TRACKED_METRICS[i])])

compute_percentiles(d, tstamp) == ApplyWrites(d, percentile_writes(d, tstamp))

(***************************************************************************)
(* Percentiles over histories of up to MaxDays days: the sleep scores are  *)
(* a block of 90s, one of 75s and one of 60s (unsorted: descending), one   *)
(* of them possibly missing; the first day has no step count.              *)
(***************************************************************************)
MaxDays == 8

Block(n, v) == [i \in 1..n |-> v]

PctRow(day, score, len) ==
    ("day" :> day) @@ ("sleep_score" :> score)
    @@ (IF day = 1 THEN EmptyDict
        ELSE "steps" :> Q(100 * (len - day) * (len - day)))

PctHistory(a, b, c, missing) ==
    LET scores == Block(a, Q(90)) \o Block(b, Q(75)) \o Block(c, Q(60))
        len == a + b + c
    IN  [i \in 1..len |->
            PctRow(i, IF i = missing THEN None ELSE scores[i], len)]

PctHistories ==
    {PctHistory(a, b, c, missing) :
        a \in 0..MaxDays, b \in 0..MaxDays, c \in 0..MaxDays,
        missing \in {0, 1, 6}}

PctInit ==
    /\ AlertIdle
    /\ job = JobIdle
    /\ ret = None
    /\ \E h \in PctHistories :
          /\ Len(h) \in 6..MaxDays
          /\ db = [EmptyDb EXCEPT !.daily_metrics = h]

ComputePercentiles ==
    /\ db' = compute_percentiles(db, now)
    /\ ret' = [op |-> "compute_percentiles"]
    /\ UNCHANGED job
    /\ UNCHANGED alertVars

\* one call percentile(p) over the sorted values of a tracked metric
ApplyPercentile(metric, p) ==
    /\ ret = None
    /\ Len(db.daily_metrics) >= 7
    /\ \E values \in {NotNoneValues(db.daily_metrics, metric)} :
          /\ Len(values) >= 7
          /\ \E sorted_vals \in {sorted(values)} :
                ret' = [op |-> "percentile", metric |-> metric,
                        sorted_vals |-> sorted_vals, p |-> p,
                        value |-> percentile(sorted_vals, p)]
    /\ UNCHANGED <<db, job>>
    /\ UNCHANGED alertVars

PctNext ==
    \/ ComputePercentiles
    \/ \E metric \in {"sleep_score", "steps"}, p \in 0..100 :
          ApplyPercentile(metric, p)

PctSpec == PctInit /\ [][PctNext]_vars

(***************************************************************************)
(* Properties of the percentiles (checked under PctSpec)                   *)
(***************************************************************************)
MetricValues(metric) == NotNoneValues(db.daily_metrics, metric)

PercentileCache == ByKey(db.percentile_cache)

Tracked == {TRACKED_METRICS[i] : i \in 1..Len(TRACKED_METRICS)}

\* C11: a stored percentile record has p10 <= p25 <= p50 <= p75 <= p90 and
\* was computed from at least 7 values; when the metric has exactly 7
\* values, all the same, the five percentiles are that value; and a metric
\* with fewer than 7 non-missing values has no record.
C11_PercentileRecord ==
    \A metric \in Tracked :
       LET values == MetricValues(metric)
       IN  /\ Len(values) < 7 => metric \notin DOMAIN PercentileCache
           /\ metric \in DOMAIN PercentileCache =>
                LET r == PercentileCache[metric]
                IN  /\ r.count >= 7
                    /\ r.count = Len(values)
                    /\ QLe(r.p10, r.p25) /\ QLe(r.p25, r.p50)
                    /\ QLe(r.p50, r.p75) /\ QLe(r.p75, r.p90)
                    /\ (Len(values) = 7
                        /\ \A i \in 1..7 : values[i] = values[1])
                       => \A q \in {r.p10, r.p25, r.p50, r.p75, r.p90} :
                             q = values[1]

\* seven days of sleep score 60: one record, five times 60; the step
\* counts of the six days that have one give no record
C11_Witness ==
    /\ ret # None
    /\ ret.op = "compute_percentiles"
    /\ DOMAIN PercentileCache = {"sleep_score"}
    /\ PercentileCache["sleep_score"].count = 7
    /\ PercentileCache["sleep_score"].p10 = Q(60)
    /\ PercentileCache["sleep_score"].p90 = Q(60)
    /\ Len(MetricValues("steps")) = 6

IsPercentileCall == ret # None /\ ret.op = "percentile"

\* C12: percentile(p) over n sorted values is v[f] + (k - f)(v[c] - v[f])
\* with k = (n-1)p/100, f = floor(k), c = min(f+1, n-1); it is the minimum
\* for p = 0, the maximum for p = 100, and always between the two.
C12_PercentileInterpolation ==
    IsPercentileCall =>
        LET v == ret.sorted_vals
            n == Len(v)
            num == (n - 1) * ret.p
            f == CHOOSE i \in 0..(n - 1) : 100 * i <= num /\ num < 100 * (i + 1)
            c == IF f + 1 < n - 1 THEN f + 1 ELSE n - 1
            reference == QAdd(v[f + 1],
                              QMul(<<num - 100 * f, 100>>,
                                   QSub(v[c + 1], v[f + 1])))
            IsMin(x) == (\E i \in 1..n : v[i] = x) /\ \A i \in 1..n : QLe(x, v[i])
            IsMax(x) == (\E i \in 1..n : v[i] = x) /\ \A i \in 1..n : QLe(v[i], x)
        IN  /\ QEq(ret.value, reference)
            /\ ret.p = 0 => IsMin(ret.value)
            /\ ret.p = 100 => IsMax(ret.value)
            /\ \A i, j \in 1..n : i <= j => QLe(v[i], v[j])
            /\ \E lo, hi \in 1..n :
                  /\ IsMin(v[lo]) /\ IsMax(v[hi])
                  /\ QLe(v[lo], ret.value) /\ QLe(ret.value, v[hi])

\* the 10th percentile of the 7 step counts 0, 100, 400, ..., 3600 lies
\* between the first two: 0 + 0.6 * (100 - 0) = 60
C12_Witness ==
    /\ IsPercentileCall
    /\ ret.metric = "steps"
    /\ ret.p = 10
    /\ Len(ret.sorted_vals) = 7
    /\ ret.value = Q(60)

(***************************************************************************)
(* src/bot/analysis/correlator.py                                          *)
(***************************************************************************)
metric_fields ==
    <<"sleep_score", "readiness_score", "total_sleep_duration",
      "deep_sleep_duration", "rem_sleep_duration", "average_hrv",
      "lowest_heart_rate", "sleep_efficiency", "sleep_latency",
      "stress_high", "steps">>

buckets ==
    <<[name |-> "morning", hour_start |-> 6, hour_end |-> 12],
      [name |-> "afternoon", hour_start |-> 12, hour_end |-> 18],
      [name |-> "evening", hour_start |-> 18, hour_end |-> 24]>>

\* the event types of the model, in the order SELECT DISTINCT lists them
EventTypeOrder == <<"coffee", "alcohol">>

Min(a, b) == IF a <= b THEN a ELSE b

\* the row written for one (event type, metric, bucket)
CorrelationRow(with_event, without_event, tstamp) ==
    LET avg_with == Mean(with_event)
        avg_without == Mean(without_event)
        delta == QRed(QSub(avg_with, avg_without))
        delta_pct == IF avg_without[1] # 0
                     THEN QRed(QMul(QDiv(delta, avg_without), Q(100)))
                     ELSE Q(0)
        total == Len(with_event) + Len(without_event)
    IN  [avg_with_event |-> avg_with,
         avg_without_event |-> avg_without,
         delta |-> delta,
         delta_pct |-> delta_pct,
         count_with |-> Len(with_event),
         count_without |-> Len(without_event),
         confidence |-> QNorm(Min(Len(with_event), Len(without_event)), total),
         updated_at |-> Stamp(tstamp)]

\* variant: one day without the event is enough
PartitionWrites_one(rows, event_type, event_days, time_bucket, min_with, tstamp) ==
    LET MetricWrite(metric_name) ==
            LET HasVal(r) == Get(r, metric_name) # None
                With(r) == HasVal(r) /\ r["day"] \in event_days
                Without(r) == HasVal(r) /\ r["day"] \notin event_days
                with_rows == SelectSeq(rows, With)
                without_rows == SelectSeq(rows, Without)
                with_event == [i \in 1..Len(with_rows) |->
                                  with_rows[i][metric_name]]
                without_event == [i \in 1..Len(without_rows) |->
                                     without_rows[i][metric_name]]
            IN  IF Len(with_event) < min_with \/ Len(without_event) < 1
                THEN <<>>
                ELSE <<Upsert("correlations",
                              <<event_type, metric_name, time_bucket>>,
                              CorrelationRow(with_event, without_event, tstamp))>>
    IN  Concat([i \in 1..Len(metric_fields) |-> MetricWrite(metric_fields[i])])

\* the loop over metric_fields of compute_correlations (min_with = 3) and
\* of _compute_time_bucket_correlations (min_with = 2): the metric values
\* of the days with and without the event, and the upsert when both
\* partitions reach their floor
PartitionWrites(rows, event_type, event_days, time_bucket, min_with, tstamp) ==
    LET MetricWrite(metric_name) ==
            LET HasVal(r) == Get(r, metric_name) # None
                With(r) == HasVal(r) /\ r["day"] \in event_days
                Without(r) == HasVal(r) /\ r["day"] \notin event_days
                with_rows == SelectSeq(rows, With)
                without_rows == SelectSeq(rows, Without)
                with_event == [i \in 1..Len(with_rows) |->
                                  with_rows[i][metric_name]]
                without_event == [i \in 1..Len(without_rows) |->
                                     without_rows[i][metric_name]]
            IN  IF Len(with_event) < min_with \/ Len(without_event) < 3
                THEN <<>>
                ELSE <<Upsert("correlations",
                              <<event_type, metric_name, time_bucket>>,
                              CorrelationRow(with_event, without_event, tstamp))>>
    IN  Concat([i \in 1..Len(metric_fields) |-> MetricWrite(metric_fields[i])])

\* _compute_time_bucket_correlations(event_type, metrics_by_day, metric_fields)
time_bucket_writes(d, event_type, tstamp) ==
    LET BucketWrites(b) ==
            LET event_days == {e.day : e \in
                                 {x \in d.events :
                                     /\ x.event_type = event_type
                                     /\ x.hour >= b.hour_start
                                     /\ x.hour < b.hour_end}}
            IN  IF Cardinality(event_days) < 2 THEN <<>>
                ELSE PartitionWrites(d.daily_metrics, event_type, event_days,
                                     b.name, 2, tstamp)
    IN  Concat([i \in 1..Len(buckets) |-> BucketWrites(buckets[i])])

\* the body of the loop over the event types
event_type_writes(d, event_type, tstamp) ==
    LET event_days == {e.day : e \in
                         {x \in d.events : x.event_type = event_type}}
    IN  IF Cardinality(event_days) < 3 THEN <<>>
        ELSE PartitionWrites(d.daily_metrics, event_type, event_days,
                             "all", 3, tstamp)
             \o time_bucket_writes(d, event_type, tstamp)

\* the upserts of compute_correlations(), in order, run at time tstamp
correlation_writes(d, tstamp) ==
    LET IsLogged(t) == \E e \in d.events : e.event_type = t
        events == SelectSeq(EventTypeOrder, IsLogged)
    IN  IF events = <<>> THEN <<>>
        ELSE IF Len(d.daily_metrics) < 14 THEN <<>>
        ELSE Concat([i \in 1..Len(events) |->
                        event_type_writes(d, events[i], tstamp)])

compute_correlations(d, tstamp) == ApplyWrites(d, correlation_writes(d, tstamp))

(***************************************************************************)
(* The event log and the metric store change, compute_correlations runs.   *)
(* The history starts with 13 days: the sleep score every day, the HRV on  *)
(* the first five days only.                                               *)
(***************************************************************************)
MaxEventDay == 3

RowFull(day) ==
    [day |-> day, sleep_score |-> Q(70 + day), average_hrv |-> Q(40 + day)]

RowNoHrv(day) == [day |-> day, sleep_score |-> Q(60)]

CorrHistory == [i \in 1..13 |-> IF i <= 5 THEN RowFull(i) ELSE RowNoHrv(i)]

Event(event_type, day, hour) ==
    [event_type |-> event_type, day |-> day, hour |-> hour]

\* the events that get logged: coffee in the morning of the first days,
\* and in the evening of the last of them
EventUniverse ==
    {Event("coffee", day, 8) : day \in 1..MaxEventDay}
    \cup {Event("coffee", MaxEventDay, 20)}

\* the rows with the row of the given day replaced or inserted in day order
UpsertDay(rows, row) ==
    LET Before(r) == r["day"] < row["day"]
        After(r) == r["day"] > row["day"]
    IN  SelectSeq(rows, Before) \o <<row>> \o SelectSeq(rows, After)

CorrInit ==
    /\ AlertIdle
    /\ job = JobIdle
    /\ ret = None
    /\ db = [EmptyDb EXCEPT !.daily_metrics = CorrHistory]

\* add_event(event_type, ..., timestamp)
AddEvent(e) ==
    /\ e \notin db.events
    /\ db' = [db EXCEPT !.events = @ \cup {e}]
    /\ UNCHANGED <<job, ret>>
    /\ UNCHANGED alertVars

\* delete_event(event_id), for the last event of its type, day and hour
DeleteEvent(e) ==
    /\ e \in db.events
    /\ db' = [db EXCEPT !.events = @ \ {e}]
    /\ UNCHANGED <<job, ret>>
    /\ UNCHANGED alertVars

\* _insert_daily_metric(day, ...)
InsertDailyMetric(row) ==
    /\ db' = [db EXCEPT !.daily_metrics = UpsertDay(@, row)]
    /\ UNCHANGED <<job, ret>>
    /\ UNCHANGED alertVars

ComputeCorrelations ==
    /\ db' = compute_correlations(db, now)
    /\ UNCHANGED <<job, ret>>
    /\ UNCHANGED alertVars

CorrNext ==
    \/ \E e \in EventUniverse : AddEvent(e)
    \/ \E e \in EventUniverse : DeleteEvent(e)
    \/ \E day \in {1, 14} : \E row \in {RowFull(day), RowNoHrv(day)} :
          InsertDailyMetric(row)
    \/ ComputeCorrelations

CorrSpec == CorrInit /\ [][CorrNext]_vars

(***************************************************************************)
(* Properties of the correlations (checked under CorrSpec)                 *)
(***************************************************************************)
TimeBuckets == {"morning", "afternoon", "evening"}

\* the days on which an event of the type was logged, in the bucket
EventDays(d, event_type, time_bucket) ==
    {e.day : e \in
        {x \in d.events :
            /\ x.event_type = event_type
            /\ \/ time_bucket = "all"
               \/ time_bucket = "morning" /\ x.hour \in 6..11
               \/ time_bucket = "afternoon" /\ x.hour \in 12..17
               \/ time_bucket = "evening" /\ x.hour \in 18..23}}

\* the number of days that have a value of the metric and an event (with)
\* or no event (~with)
PartitionSize(d, key, with) ==
    Cardinality({i \in 1..Len(d.daily_metrics) :
                    /\ Get(d.daily_metrics[i], key[2]) # None
                    /\ (d.daily_metrics[i]["day"]
                          \in EventDays(d, key[1], key[3])) <=> with})

FloorWith(time_bucket) == IF time_bucket = "all" THEN 3 ELSE 2

Correlations(d) == ByKey(d.correlations)

\* C13: every stored correlation record of bucket 'all' has
\* count_with >= 3 and count_without >= 3, every record of a time-of-day
\* bucket count_with >= 2 and count_without >= 3; and a step that writes a
\* record writes the sizes of the two partitions, both at their floor.
C13_CorrelationFloors ==
    /\ [](\A key \in DOMAIN Correlations(db) :
             /\ key[3] \in {"all"} \cup TimeBuckets
             /\ Correlations(db)[key].count_with >= FloorWith(key[3])
             /\ Correlations(db)[key].count_without >= 3)
    /\ [][\A key \in DOMAIN Correlations(db') :
             Get(Correlations(db), key) # Correlations(db')[key] =>
                /\ Correlations(db')[key].count_with
                      = PartitionSize(db, key, TRUE)
                /\ Correlations(db')[key].count_without
                      = PartitionSize(db, key, FALSE)
                /\ PartitionSize(db, key, TRUE) >= FloorWith(key[3])
                /\ PartitionSize(db, key, FALSE) >= 3
         ]_vars

\* coffee on three days, two of them in the morning: the sleep score has
\* an 'all' and a 'morning' record, the HRV (three days with a value and
\* coffee, two without) has none
C13_Witness ==
    /\ <<"coffee", "sleep_score", "all">> \in DOMAIN Correlations(db)
    /\ Correlations(db)[<<"coffee", "sleep_score", "all">>].count_with = 3
    /\ <<"coffee", "sleep_score", "morning">> \in DOMAIN Correlations(db)
    /\ Correlations(db)[<<"coffee", "sleep_score", "morning">>].count_with = 2
    /\ \A key \in DOMAIN Correlations(db) : key[2] # "average_hrv"
    /\ PartitionSize(db, <<"coffee", "average_hrv", "all">>, TRUE) = 3
    /\ PartitionSize(db, <<"coffee", "average_hrv", "all">>, FALSE) = 2

(***************************************************************************)
(* src/bot/habits/streaks.py                                               *)
(* A stored bedtime is a timestamp string: valid tells whether             *)
(* datetime.fromisoformat parses it, hour and minute are its wall-clock    *)
(* time.                                                                   *)
(***************************************************************************)
Bedtime(hour, minute) == [valid |-> TRUE, hour |-> hour, minute |-> minute]

Malformed == [valid |-> FALSE, hour |-> 0, minute |-> 0]

DEFAULT_HABITS ==
    <<[habit_name |-> "sleep_7h", field |-> "total_sleep_duration",
       op |-> ">=", target |-> Q(7 * 3600)],
      [habit_name |-> "steps_8k", field |-> "steps",
       op |-> ">=", target |-> Q(8000)],
      [habit_name |-> "bedtime_2300", field |-> "bedtime_end",
       op |-> "bedtime_before", target |-> <<23, 0>>],
      [habit_name |-> "hrv_above_avg", field |-> "average_hrv",
       op |-> ">=", target |-> None]>>

\* rows_asc: the 90 most recent rows, oldest first
RowsAsc(rows) ==
    IF Len(rows) > 90 THEN SubSeq(rows, Len(rows) - 89, Len(rows)) ELSE rows

\* hit, for a row whose value of the habit's field is not None
Hit(row, habit, target) ==
    IF habit.op = ">=" THEN QGe(row[habit.field], target)
    ELSE LET bt == IF Get(row, "bedtime_start") # None
                   THEN row["bedtime_start"] ELSE row["bedtime_end"]
         IN  /\ bt.valid
             /\ \/ bt.hour < target[1]
                \/ bt.hour = target[1] /\ bt.minute <= target[2]

ScanStart == [streak |-> 0, best_streak |-> 0, last_day |-> None]

\* variant: a day without a value is passed over and the streak goes on
ScanStep_skip(st, row, habit, target) ==
    IF Get(row, habit.field) = None THEN st
    ELSE IF Hit(row, habit, target)
    THEN [streak |-> st.streak + 1,
          best_streak |-> IF st.streak + 1 > st.best_streak
                          THEN st.streak + 1 ELSE st.best_streak,
          last_day |-> <<row["day"]>>]
    ELSE [st EXCEPT !.streak = 0]

\* variant: the best streak is raised before the streak is incremented
ScanStep_late(st, row, habit, target) ==
    IF Get(row, habit.field) = None THEN [st EXCEPT !.streak = 0]
    ELSE IF Hit(row, habit, target)
    THEN [streak |-> st.streak + 1,
          best_streak |-> IF st.streak > st.best_streak
                          THEN st.streak ELSE st.best_streak,
          last_day |-> <<row["day"]>>]
    ELSE [st EXCEPT !.streak = 0]

\* one pass of the loop `for row in rows_asc`
ScanStep(st, row, habit, target) ==
    IF Get(row, habit.field) = None THEN [st EXCEPT !.streak = 0]
    ELSE IF Hit(row, habit, target)
    THEN [streak |-> st.streak + 1,
          best_streak |-> IF st.streak + 1 > st.best_streak
                          THEN st.streak + 1 ELSE st.best_streak,
          last_day |-> <<row["day"]>>]
    ELSE [st EXCEPT !.streak = 0]

\* the passes lo..hi of the loop, entered with the loop variables st.  The
\* passes are split in two halves and st is looked at first (a streak is
\* never negative), which keeps the evaluation shallow.
RECURSIVE Scan(_, _, _, _, _, _)
Scan(rows_asc, habit, target, st, lo, hi) ==
    IF st.streak < 0 \/ lo > hi THEN st
    ELSE IF lo = hi THEN ScanStep(st, rows_asc[lo], habit, target)
    ELSE LET mid == (lo + hi) \div 2
         IN  Scan(rows_asc, habit, target,
                  Scan(rows_asc, habit, target, st, lo, mid), mid + 1, hi)

\* sum(vals[lo..hi]), split in two halves likewise
RECURSIVE SumRange(_, _, _)
SumRange(vals, lo, hi) ==
    IF lo > hi THEN Q(0)
    ELSE IF lo = hi THEN vals[lo]
    ELSE LET mid == (lo + hi) \div 2
         IN  QRed(QAdd(SumRange(vals, lo, mid), SumRange(vals, mid + 1, hi)))

\* variant: sum(vals) // len(vals)
Average_floor(vals) ==
    LET total == SumRange(vals, 1, Len(vals))
    IN  Q((total[1] \div total[2]) \div Len(vals))

\* sum(vals) / len(vals)
Average(vals) ==
    LET total == SumRange(vals, 1, Len(vals))
    IN  QNorm(total[1], total[2] * Len(vals))

\* variant: the personal HRV target is the cached median when there is one
streak_writes_cached(d, tstamp) ==
    LET rows_asc == RowsAsc(d.daily_metrics)
        cache == ByKey(d.percentile_cache)
        HabitWrite(habit) ==
            LET personal == habit.target = None /\ habit.field = "average_hrv"
                vals == NotNoneValues(rows_asc, habit.field)
                target == IF ~personal THEN habit.target
                          ELSE IF "average_hrv" \in DOMAIN cache
                          THEN cache["average_hrv"].p50
                          ELSE Average(vals)
                st == Scan(rows_asc, habit, target, ScanStart,
                           1, Len(rows_asc))
            IN  IF personal /\ vals = <<>> THEN <<>>
                ELSE <<Upsert("habit_streaks", habit.habit_name,
                              [current_streak |-> st.streak,
                               best_streak |-> st.best_streak,
                               last_day |-> st.last_day,
                               target_value |-> IF habit.op = ">=" THEN target
                                                ELSE Q(0),
                               updated_at |-> Stamp(tstamp)])>>
    IN  IF rows_asc = <<>> THEN <<>>
        ELSE Concat([i \in 1..Len(DEFAULT_HABITS) |->
                        HabitWrite(DEFAULT_HABITS[i])])

\* the upserts of update_streaks(), in order, run at time tstamp
streak_writes(d, tstamp) ==
    LET rows_asc == RowsAsc(d.daily_metrics)
        HabitWrite(habit) ==
            LET personal == habit.target = None /\ habit.field = "average_hrv"
                vals == NotNoneValues(rows_asc, habit.field)
                target == IF personal THEN Average(vals) ELSE habit.target
                st == Scan(rows_asc, habit, target, ScanStart,
                           1, Len(rows_asc))
            IN  IF personal /\ vals = <<>> THEN <<>>
                ELSE <<Upsert("habit_streaks", habit.habit_name,
                              [current_streak |-> st.streak,
                               best_streak |-> st.best_streak,
                               last_day |-> st.last_day,
                               target_value |-> IF habit.op = ">=" THEN target
                                                ELSE Q(0),
                               updated_at |-> Stamp(tstamp)])>>
    IN  IF rows_asc = <<>> THEN <<>>
        ELSE Concat([i \in 1..Len(DEFAULT_HABITS) |->
                        HabitWrite(DEFAULT_HABITS[i])])

update_streaks(d, tstamp) == ApplyWrites(d, streak_writes(d, tstamp))

(***************************************************************************)
(* update_streaks runs as days are appended to the history.  A day is      *)
(* good (8 h of sleep, 9000 steps, in bed at 22:30, HRV 50), bad (6 h,     *)
(* 5000 steps, 23:30, HRV 30), on the targets (7 h, 8000 steps, 23:00,     *)
(* HRV 80, the bedtime_start unparsable) or without any value.  The        *)
(* history starts with good days followed by bad ones.                     *)
(***************************************************************************)
MaxAppend == 3

DayKinds == {"good", "bad", "edge", "missing"}

HabitRow(day, kind) ==
    CASE kind = "good" ->
            [day |-> day, total_sleep_duration |-> Q(8 * 3600),
             steps |-> Q(9000), average_hrv |-> Q(50),
             bedtime_start |-> Bedtime(22, 30), bedtime_end |-> Bedtime(6, 30)]
      [] kind = "bad" ->
            [day |-> day, total_sleep_duration |-> Q(6 * 3600),
             steps |-> Q(5000), average_hrv |-> Q(30),
             bedtime_start |-> Bedtime(23, 30), bedtime_end |-> Bedtime(5, 30)]
      [] kind = "edge" ->
            [day |-> day, total_sleep_duration |-> Q(7 * 3600),
             steps |-> Q(8000), average_hrv |-> Q(80),
             bedtime_start |-> None, bedtime_end |-> Bedtime(23, 0)]
      [] kind = "missing" -> [day |-> day]

StreakHistory(good, bad) ==
    [i \in 1..(good + bad) |-> HabitRow(i, IF i <= good THEN "good" ELSE "bad")]

StreakHistories ==
    {StreakHistory(good, bad) : good \in 0..2, bad \in {0, 90 - 2}}

StreakInit ==
    /\ AlertIdle
    /\ job = JobIdle
    /\ ret = [op |-> "none", appended |-> 0]
    /\ \E h \in StreakHistories : db = [EmptyDb EXCEPT !.daily_metrics = h]

\* _cache_daily_metrics: the row of the next day is inserted
AppendDay(kind) ==
    /\ ret.appended < MaxAppend
    /\ db' = [db EXCEPT !.daily_metrics =
                 UpsertDay(@, HabitRow(Len(@) + 1, kind))]
    /\ ret' = [op |-> "cache_daily_metrics", appended |-> ret.appended + 1]
    /\ UNCHANGED job
    /\ UNCHANGED alertVars

UpdateStreaks ==
    /\ db' = update_streaks(db, now)
    /\ ret' = [ret EXCEPT !.op = "update_streaks"]
    /\ UNCHANGED job
    /\ UNCHANGED alertVars

StreakNext ==
    \/ \E kind \in DayKinds : AppendDay(kind)
    \/ UpdateStreaks

StreakSpec == StreakInit /\ [][StreakNext]_vars

(***************************************************************************)
(* Properties of the streaks (checked under StreakSpec)                    *)
(***************************************************************************)
SetMax(S) == CHOOSE m \in S : \A x \in S : x <= m

HabitStreaks(d) == ByKey(d.habit_streaks)

\* the days of the window that do not qualify: the value is missing or
\* the predicate fails
Misses(rows_asc, habit, target) ==
    {i \in 1..Len(rows_asc) :
        \/ Get(rows_asc[i], habit.field) = None
        \/ ~Hit(rows_asc[i], habit, target)}

\* the number of consecutive qualifying days that end with day j
RunEndingAt(misses, j) == j - SetMax({i \in misses : i <= j} \cup {0})

\* the sleep durations of the window, in hours
SleepHours(rows_asc) ==
    [i \in 1..Len(rows_asc) |->
        IF Get(rows_asc[i], "total_sleep_duration") = None THEN None
        ELSE QRed(QDiv(rows_asc[i]["total_sleep_duration"], Q(3600)))]

\* C15: after update_streaks, the record of a habit holds the outcome of
\* the scan of the window, oldest day first: the current streak is the
\* number of qualifying days at the end of the window (0 when the last day
\* fails or has no value), the best streak is the longest run of
\* consecutive qualifying days, and the last qualifying day is the latest
\* day that qualifies (none when no day does).  Sleep of 8, 8, 6, 8, 8 hours
\* gives current streak 2 and best streak 2 for the 7 h habit.
C15_StreakScan ==
    ret.op = "update_streaks" =>
        LET rows_asc == RowsAsc(db.daily_metrics)
            n == Len(rows_asc)
        IN  /\ \A k \in 1..Len(DEFAULT_HABITS) :
                  LET habit == DEFAULT_HABITS[k]
                      name == habit.habit_name
                  IN  name \in DOMAIN HabitStreaks(db) =>
                        LET r == HabitStreaks(db)[name]
                            target == IF habit.op = ">=" THEN r.target_value
                                      ELSE habit.target
                            misses == Misses(rows_asc, habit, target)
                            hits == (1..n) \ misses
                        IN  /\ r.current_streak = RunEndingAt(misses, n)
                            /\ r.best_streak
                                  = SetMax({RunEndingAt(misses, j) : j \in 0..n})
                            /\ r.last_day
                                  = IF hits = {} THEN None
                                    ELSE <<rows_asc[SetMax(hits)]["day"]>>
            /\ SleepHours(rows_asc) = <<Q(8), Q(8), Q(6), Q(8), Q(8)>> =>
                  /\ HabitStreaks(db)["sleep_7h"].current_streak = 2
                  /\ HabitStreaks(db)["sleep_7h"].best_streak = 2

\* the five days of the example, scanned
C15_Witness ==
    /\ ret.op = "update_streaks"
    /\ SleepHours(db.daily_metrics) = <<Q(8), Q(8), Q(6), Q(8), Q(8)>>
    /\ HabitStreaks(db)["sleep_7h"].current_streak = 2
    /\ HabitStreaks(db)["sleep_7h"].best_streak = 2
    /\ HabitStreaks(db)["sleep_7h"].last_day = <<5>>

\* C16: the stored best_streak of a habit never decreases from one
\* update_streaks run to the next, as days are appended to the history.
C16_BestStreakMonotone ==
    [][\A name \in DOMAIN HabitStreaks(db) :
          /\ name \in DOMAIN HabitStreaks(db')
          /\ HabitStreaks(db')[name].best_streak
                >= HabitStreaks(db)[name].best_streak
      ]_vars

(***************************************************************************)
(* src/bot/scheduler/jobs.py: job_recompute_analytics                      *)
(* The batch calls the three functions one after the other; every upsert   *)
(* is committed on its own (Database.execute), so the process can stop     *)
(* between any two of them, and the next start of the batch begins again   *)
(* with its first function.  The order of the calls is an input of the     *)
(* model: AnalyticsOrder is the order of the source.                       *)
(***************************************************************************)
AnalyticsOrder ==
    <<"compute_percentiles", "compute_correlations", "update_streaks">>

Orders ==
    {o \in [1..3 -> {AnalyticsOrder[i] : i \in 1..3}] :
        \A i, j \in 1..3 : i # j => o[i] # o[j]}

\* the upserts of one of the three functions, run on d at time tstamp
FunctionWrites(name, d, tstamp) ==
    CASE name = "compute_percentiles" -> percentile_writes(d, tstamp)
      [] name = "compute_correlations" -> correlation_writes(d, tstamp)
      [] name = "update_streaks" -> streak_writes(d, tstamp)

\* the three functions called in the given order, each to its end
RECURSIVE CompleteRun(_, _, _)
CompleteRun(order, d, tstamp) ==
    IF order = <<>> THEN d
    ELSE CompleteRun(Tail(order),
                     ApplyWrites(d, FunctionWrites(Head(order), d, tstamp)),
                     tstamp)

(***************************************************************************)
(* The nightly batch on a fixed history of 14 days (the first days good,   *)
(* the others bad) with coffee logged on the first three mornings and, in  *)
(* the larger event log, on the evenings of days 4 and 5.  A stopped batch *)
(* is started again later, at most MaxRuns starts in all.                  *)
(***************************************************************************)
MaxRuns == 2

NightlyHistory(good) ==
    [i \in 1..14 |-> HabitRow(i, IF i <= good THEN "good" ELSE "bad")]

NightlyEvents(evenings) ==
    {Event("coffee", day, 8) : day \in 1..3}
    \cup {Event("coffee", day, 20) : day \in 4..(3 + evenings)}

NightlyInit ==
    /\ AlertIdle
    /\ ret = None
    /\ \E o \in Orders : job = [JobIdle EXCEPT !.order = o]
    /\ \E good \in {3, 5}, evenings \in {0, 2} :
          db = [EmptyDb EXCEPT !.daily_metrics = NightlyHistory(good),
                               !.events = NightlyEvents(evenings)]

\* the scheduler starts the batch: its first function reads the tables
StartBatch ==
    /\ job.state \in {"idle", "done"}
    /\ job.runs < MaxRuns
    /\ now' = now + 1
    /\ job' = [job EXCEPT !.state = "running", !.pos = 1,
                          !.pending = FunctionWrites(job.order[1], db, now'),
                          !.runs = @ + 1, !.written = 0]
    /\ UNCHANGED <<db, ret>>
    /\ UNCHANGED <<credsSet, baselinesFile, historyFile, out,
                   argBaselines, argCurrent, result>>

\* db.execute of the next upsert of the running function
ExecuteUpsert ==
    /\ job.state = "running"
    /\ job.pending # <<>>
    /\ db' = ApplyWrite(db, Head(job.pending))
    /\ job' = [job EXCEPT !.pending = Tail(@), !.written = @ + 1]
    /\ UNCHANGED ret
    /\ UNCHANGED alertVars

\* the running function returns: the next one reads the tables, or the
\* batch is over
FunctionReturns ==
    /\ job.state = "running"
    /\ job.pending = <<>>
    /\ IF job.pos < Len(job.order)
       THEN job' = [job EXCEPT !.pos = @ + 1,
                       !.pending = FunctionWrites(job.order[job.pos + 1],
                                                  db, now)]
       ELSE job' = [job EXCEPT !.state = "done", !.pos = 0]
    /\ UNCHANGED <<db, ret>>
    /\ UNCHANGED alertVars

\* the process stops in the middle of the batch (or a call raises and the
\* except clause ends the batch)
Interrupt ==
    /\ job.state = "running"
    /\ job' = [job EXCEPT !.state = "idle", !.pos = 0, !.pending = <<>>,
                          !.interrupted_after = <<job.written>>]
    /\ UNCHANGED <<db, ret>>
    /\ UNCHANGED alertVars

NightlyNext ==
    \/ StartBatch
    \/ ExecuteUpsert
    \/ FunctionReturns
    \/ Interrupt

NightlySpec == NightlyInit /\ [][NightlyNext]_vars

(***************************************************************************)
(* Properties of the nightly batch (checked under NightlySpec)             *)
(***************************************************************************)
DerivedTables == {"percentile_cache", "correlations", "habit_streaks"}

\* d with the derived tables as they are before the first batch
Base(d) ==
    [d EXCEPT !.percentile_cache = {}, !.correlations = {},
              !.habit_streaks = {}]

\* the derived records of d without their write times
Records(d) ==
    [t \in DerivedTables |->
        {[c \in DOMAIN r \ {"updated_at"} |-> r[c]] : r \in d[t]}]

\* C14: the derived tables never hold two rows with the same natural key,
\* and when a batch has run to its end, whatever earlier batches were
\* stopped after or had completed, the derived tables are those of one
\* complete run on the same daily_metrics and events: written at the time
\* of this batch, and but for the write times equal to those of a complete
\* run at the time of the first start
C14_IdempotentUpserts ==
    /\ \A t \in DerivedTables : \A r1, r2 \in db[t] :
          r1["key"] = r2["key"] => r1 = r2
    /\ job.state = "done" =>
          /\ db = CompleteRun(job.order, Base(db), now)
          /\ Records(db) = Records(CompleteRun(job.order, Base(db), 1))

\* C14 happens: a batch was stopped after some but not all of its upserts,
\* and the batch started again has run to its end
C14_Witness ==
    /\ job.state = "done"
    /\ job.runs = 2
    /\ job.interrupted_after # None
    /\ job.interrupted_after[1] > 0
    /\ job.interrupted_after[1] < job.written
    /\ \A t \in DerivedTables : db[t] # {}

\* C20: when the batch has called the three functions in any order, the
\* derived tables are those the order of the source leaves on the same
\* daily_metrics and events; and at every point of a batch the upserts the
\* running function makes are those it would make with the derived tables
\* empty (it reads none of them)
C20_OrderIndependent ==
    /\ job.state = "done" =>
          db = CompleteRun(AnalyticsOrder, Base(db), now)
    /\ job.state = "running" =>
          FunctionWrites(job.order[job.pos], db, now)
              = FunctionWrites(job.order[job.pos], Base(db), now)

\* C20 happens: the batch ran to its end in the reverse of the order of the
\* source, and every derived table is written
C20_Witness ==
    /\ job.state = "done"
    /\ job.runs = 1
    /\ job.order = <<"update_streaks", "compute_correlations",
                     "compute_percentiles">>
    /\ \A t \in DerivedTables : db[t] # {}

(***************************************************************************)
(* src/bot/habits/sleep_debt.py                                            *)
(* Hours are exact fractions; the durations of the model are multiples of  *)
(* a quarter of an hour, which the floats of the code represent exactly.   *)
(***************************************************************************)
TARGET_SLEEP_HOURS == <<15, 2>>

\* ORDER BY day DESC LIMIT n over values listed in day order
MostRecent(vals, n) ==
    LET m == Min(Len(vals), n)
    IN  [i \in 1..m |-> vals[Len(vals) + 1 - i]]

\* int(x) for x >= 0
QFloor(x) == x[1] \div x[2]

\* variant: a night above the target counts as negative debt
Deficit_net(h) == QRed(QSub(TARGET_SLEEP_HOURS, h))

\* max(0, TARGET_SLEEP_HOURS - h)
Deficit(h) ==
    LET short == QRed(QSub(TARGET_SLEEP_HOURS, h))
    IN  IF QGt(short, Q(0)) THEN short ELSE Q(0)

\* calculate_sleep_debt(days); the labels are named after their meaning
calculate_sleep_debt(d, days) ==
    LET rows == MostRecent(NotNoneValues(d.daily_metrics,
                                         "total_sleep_duration"), days)
        sleep_hours == [i \in 1..Len(rows) |-> QRed(QDiv(rows[i], Q(3600)))]
        avg_sleep == Average(sleep_hours)
        deficits == [i \in 1..Len(rows) |-> Deficit(sleep_hours[i])]
        debt == SumRange(deficits, 1, Len(deficits))
        extra_per_night == <<1, 2>>
        days_to_payoff == IF QGt(debt, Q(0))
                          THEN QFloor(QDiv(debt, extra_per_night)) + 1
                          ELSE 0
        label == IF QLe(debt, Q(0)) THEN "no debt"
                 ELSE IF QLe(debt, Q(3)) THEN "small debt"
                 ELSE IF QLe(debt, Q(7)) THEN "significant debt"
                 ELSE "critical debt"
    IN  IF Len(rows) < 3 THEN None
        ELSE [debt_hours |-> debt, avg_sleep |-> avg_sleep,
              days_to_payoff |-> days_to_payoff, label |-> label]

(***************************************************************************)
(* src/bot/habits/circadian.py                                             *)
(* The local zone of the process is the zone of the stored bedtimes, so    *)
(* astimezone() keeps hour and minute.  The standard deviation is a square *)
(* root: the result carries its square, the sample variance, which         *)
(* statistics.stdev computes exactly before taking the root.               *)
(***************************************************************************)
\* variant: minutes past midnight without the shift of the early hours
BedtimeMinutes_unshifted(bt) == bt.hour * 60 + bt.minute

\* minutes of one parsed bedtime: hour * 60 + minute, plus 1440 before 6 AM
BedtimeMinutes(bt) ==
    LET minutes == bt.hour * 60 + bt.minute
    IN  IF minutes < 360 THEN minutes + 1440 ELSE minutes

RECURSIVE IntSum(_)
IntSum(xs) == IF xs = <<>> THEN 0 ELSE Head(xs) + IntSum(Tail(xs))

\* the square of statistics.stdev(xs): sum((x - mean)^2) / (n - 1), which
\* is (n * sum(x^2) - sum(x)^2) / (n * (n - 1))
SampleVariance(xs) ==
    LET n == Len(xs)
        s == IntSum(xs)
        ss == IntSum([i \in 1..n |-> xs[i] * xs[i]])
    IN  QNorm(n * ss - s * s, n * (n - 1))

\* x % m for a fraction x and an integer m > 0
QMod(x, m) == <<x[1] % (m * x[2]), x[2]>>

\* max(0, min(100, int(100 - stdev / 60 * 100))) from the variance
StabilityScore(variance) ==
    IF QGe(variance, Q(3600)) THEN 0
    ELSE CHOOSE s \in 0..100 :
            /\ 9 * (100 - s) * (100 - s) * variance[2] >= 25 * variance[1]
            /\ s < 100 =>
                  9 * (99 - s) * (99 - s) * variance[2] < 25 * variance[1]

\* get_circadian_stability(days)
get_circadian_stability(d, days) ==
    LET rows == MostRecent(NotNoneValues(d.daily_metrics, "bedtime_start"),
                           days)
        Parses(bt) == bt.valid
        parsed == SelectSeq(rows, Parses)
        bedtime_minutes == [i \in 1..Len(parsed) |-> BedtimeMinutes(parsed[i])]
        variance == SampleVariance(bedtime_minutes)
        avg_min == QNorm(IntSum(bedtime_minutes), Len(bedtime_minutes))
        avg_min_normalized == QMod(avg_min, 1440)
        avg_hour == QFloor(avg_min_normalized) \div 60
        avg_minute == QFloor(QMod(avg_min_normalized, 60))
        label == IF QLe(variance, Q(15 * 15)) THEN "excellent stability"
                 ELSE IF QLe(variance, Q(30 * 30)) THEN "good stability"
                 ELSE IF QLe(variance, Q(45 * 45)) THEN "moderate instability"
                 ELSE "unstable rhythm"
    IN  IF Len(rows) < 5 THEN None
        ELSE IF Len(bedtime_minutes) < 5 THEN None
        ELSE [bedtime_stdev_min |-> [squared |-> variance],
              avg_bedtime |-> <<avg_hour, avg_minute>>,
              stability_score |-> StabilityScore(variance),
              label |-> label]

(***************************************************************************)
(* Sleep debt and circadian stability are computed as nights are cached.   *)
(* The history starts empty, with seven nights of 6 h, with five nights in *)
(* bed at 23:00, 23:15, 00:10, 22:50 and 23:05, or with 13 nights of which *)
(* the two oldest are short and late; up to MaxNights nights follow.       *)
(***************************************************************************)
MaxNights == 3

NightKinds == {"short", "target", "long", "odd", "missing"}

NightRow(day, seconds, bt) ==
    [day |-> day, total_sleep_duration |-> Q(seconds), bedtime_start |-> bt]

Night(day, kind) ==
    CASE kind = "short" -> NightRow(day, 6 * 3600, Bedtime(23, 0))
      [] kind = "target" -> NightRow(day, 27000, Bedtime(23, 15))
      [] kind = "long" -> NightRow(day, 9 * 3600, Bedtime(0, 10))
      [] kind = "odd" -> NightRow(day, 26100, Malformed)
      [] kind = "missing" -> [day |-> day]

SixHourNights == [i \in 1..7 |-> NightRow(i, 6 * 3600, Bedtime(23, 0))]

ExampleBedtimes ==
    <<Bedtime(23, 0), Bedtime(23, 15), Bedtime(0, 10), Bedtime(22, 50),
      Bedtime(23, 5)>>

ExampleNights == [i \in 1..5 |-> NightRow(i, 8 * 3600, ExampleBedtimes[i])]

LongHistory ==
    [i \in 1..13 |-> IF i <= 2 THEN NightRow(i, 5 * 3600, Bedtime(2, 0))
                     ELSE NightRow(i, 27000, Bedtime(0, 30))]

SleepHistories == {<<>>, SixHourNights, ExampleNights, LongHistory}

SleepInit ==
    /\ AlertIdle
    /\ job = JobIdle
    /\ ret = [op |-> "none", appended |-> 0, value |-> None]
    /\ \E h \in SleepHistories : db = [EmptyDb EXCEPT !.daily_metrics = h]

\* _cache_daily_metrics: the row of the next night is inserted
CacheNight(kind) ==
    /\ ret.appended < MaxNights
    /\ db' = [db EXCEPT !.daily_metrics = UpsertDay(@, Night(Len(@) + 1, kind))]
    /\ ret' = [op |-> "cache_daily_metrics", appended |-> ret.appended + 1,
               value |-> None]
    /\ UNCHANGED job
    /\ UNCHANGED alertVars

CalculateSleepDebt ==
    /\ ret' = [ret EXCEPT !.op = "calculate_sleep_debt",
                          !.value = calculate_sleep_debt(db, 14)]
    /\ UNCHANGED <<db, job>>
    /\ UNCHANGED alertVars

GetCircadianStability ==
    /\ ret' = [ret EXCEPT !.op = "get_circadian_stability",
                          !.value = get_circadian_stability(db, 14)]
    /\ UNCHANGED <<db, job>>
    /\ UNCHANGED alertVars

SleepNext ==
    \/ \E kind \in NightKinds : CacheNight(kind)
    \/ CalculateSleepDebt
    \/ GetCircadianStability

SleepSpec == SleepInit /\ [][SleepNext]_vars

(***************************************************************************)
(* Properties of sleep debt and circadian stability (checked under         *)
(* SleepSpec)                                                              *)
(***************************************************************************)
\* the nights (positions in day order) that have a value of the field
Valued(field) ==
    {i \in 1..Len(db.daily_metrics) : Get(db.daily_metrics[i], field) # None}

\* the n latest nights of S
Latest(S, n) == {i \in S : Cardinality({j \in S : j > i}) < n}

RECURSIVE SetSum(_, _)
SetSum(f, S) ==
    IF S = {} THEN 0
    ELSE LET i == CHOOSE x \in S : TRUE
         IN  f[i] + SetSum(f, S \ {i})

IsDebtCall == ret.op = "calculate_sleep_debt"

DebtWindow == Latest(Valued("total_sleep_duration"), 14)

Seconds ==
    [i \in 1..Len(db.daily_metrics) |->
        IF i \in Valued("total_sleep_duration")
        THEN db.daily_metrics[i]["total_sleep_duration"][1] ELSE 0]

\* the nights of the window below 7.5 h (27000 s)
ShortNights == {i \in DebtWindow : Seconds[i] < 27000}

\* the database with one more hour of sleep in night i
Raised(i) ==
    [db EXCEPT !.daily_metrics[i]["total_sleep_duration"] = Q(@[1] + 3600)]

\* the least integer n >= x, for a fraction 0 <= x <= 400
Ceil(x) == CHOOSE n \in 0..400 : (n - 1) * x[2] < x[1] /\ x[1] <= n * x[2]

\* C17: calculate_sleep_debt returns days_to_payoff = ceil(debt / 0.5) when
\* debt > 0 and 0 when debt = 0, also for debts that are multiples of 0.5 h;
\* seven nights of 6 h give a debt of 10.5 h and days_to_payoff 21
C17_PayoffCeil ==
    IsDebtCall /\ ret.value # None =>
        /\ ret.value.days_to_payoff =
              IF QGt(ret.value.debt_hours, Q(0))
              THEN Ceil(QMul(ret.value.debt_hours, Q(2)))
              ELSE 0
        /\ db.daily_metrics = SixHourNights =>
              /\ ret.value.debt_hours = <<21, 2>>
              /\ ret.value.days_to_payoff = 21

\* C18: over the (up to 14) latest nights with a total sleep duration the
\* debt is the sum of max(0, 7.5 - hours), that is 7.5 h for each night
\* below the target less the hours slept in those nights; it is never
\* negative; one more hour in a night of the window already at or above
\* the target leaves it unchanged; and the result is None exactly when
\* there are fewer than 3 such nights
C18_DeficitLedger ==
    IsDebtCall =>
        IF Cardinality(DebtWindow) < 3 THEN ret.value = None
        ELSE /\ ret.value # None
             /\ QEq(ret.value.debt_hours,
                    <<27000 * Cardinality(ShortNights)
                         - SetSum(Seconds, ShortNights), 3600>>)
             /\ QGe(ret.value.debt_hours, Q(0))
             /\ \A i \in DebtWindow \ ShortNights :
                   calculate_sleep_debt(Raised(i), 14).debt_hours
                       = ret.value.debt_hours

\* C18 happens: the debt is computed over a window of 14 nights that leaves
\* out an older short night and holds both a short night and a night above
\* the target
C18_Witness ==
    /\ IsDebtCall
    /\ ret.value # None
    /\ Cardinality(DebtWindow) = 14
    /\ \E i \in Valued("total_sleep_duration") \ DebtWindow :
          Seconds[i] < 27000
    /\ ShortNights # {}
    /\ \E i \in DebtWindow : Seconds[i] > 27000
    /\ QGt(ret.value.debt_hours, Q(0))

IsCircadianCall == ret.op = "get_circadian_stability"

BedtimeWindow == Latest(Valued("bedtime_start"), 14)

\* the nights of the window whose bedtime parses
Usable == {i \in BedtimeWindow : db.daily_metrics[i]["bedtime_start"].valid}

\* minutes past midnight, the hours before 06:00 counted as 24:00 to 30:00
Shifted ==
    [i \in 1..Len(db.daily_metrics) |->
        IF i \in Usable
        THEN LET bt == db.daily_metrics[i]["bedtime_start"]
             IN  IF bt.hour < 6 THEN 1440 + bt.hour * 60 + bt.minute
                 ELSE bt.hour * 60 + bt.minute
        ELSE 0]

\* the sample variance of the shifted minutes: the squared distances from
\* the mean, summed and divided by n - 1 (all scaled by n * n)
ShiftedVariance ==
    LET n == Cardinality(Usable)
        total == SetSum(Shifted, Usable)
        sq == [i \in 1..Len(db.daily_metrics) |->
                  (n * Shifted[i] - total) * (n * Shifted[i] - total)]
    IN  QNorm(SetSum(sq, Usable), n * n * (n - 1))

\* the whole minutes of the mean of the shifted minutes, modulo 1440
ShiftedMean == (SetSum(Shifted, Usable) \div Cardinality(Usable)) % 1440

\* the result is None with fewer than 5 usable bedtimes; otherwise its
\* deviation is that of the shifted minutes and its average bedtime their
\* mean modulo 1440
CircadianShifted ==
    IsCircadianCall =>
        IF Cardinality(Usable) < 5 THEN ret.value = None
        ELSE /\ ret.value # None
             /\ ret.value.bedtime_stdev_min.squared = ShiftedVariance
             /\ ret.value.avg_bedtime
                   = <<ShiftedMean \div 60, ShiftedMean % 60>>

\* C19 as stated: the bedtimes before 06:00 are shifted by 1440 minutes
\* before mean and sample standard deviation, the average bedtime is the
\* mean modulo 1440, fewer than 5 usable samples give None, and the
\* bedtimes 23:00, 23:15, 00:10, 22:50, 23:05 give a standard deviation
\* under 30 minutes (a variance under 900)
C19_StdevUnder30 ==
    /\ CircadianShifted
    /\ IsCircadianCall /\ db.daily_metrics = ExampleNights =>
          /\ ret.value # None
          /\ QLt(ret.value.bedtime_stdev_min.squared, Q(30 * 30))

\* C19 amended: as stated, but the bedtimes 23:00, 23:15, 00:10, 22:50,
\* 23:05 give a sample variance of 992.5, a standard deviation of about
\* 31.5 minutes (between 31 and 32), and the average bedtime 23:16
C19_WrapAround ==
    /\ CircadianShifted
    /\ IsCircadianCall /\ db.daily_metrics = ExampleNights =>
          /\ ret.value # None
          /\ ret.value.bedtime_stdev_min.squared = <<1985, 2>>
          /\ QGt(ret.value.bedtime_stdev_min.squared, Q(31 * 31))
          /\ QLt(ret.value.bedtime_stdev_min.squared, Q(32 * 32))
          /\ ret.value.avg_bedtime = <<23, 16>>

\* C19 happens: the stability is computed for the five bedtimes of the
\* example, one of them after midnight
C19_Witness ==
    /\ IsCircadianCall
    /\ db.daily_metrics = ExampleNights
    /\ ret.value # None
    /\ \E i \in Usable : db.daily_metrics[i]["bedtime_start"].hour < 6

(***************************************************************************)
(* Frame of the dedup ledger (checked under Spec)                          *)
(***************************************************************************)
\* the ledger holds, at the time of the check, an entry of the metric that
\* is younger than the window
FreshEntry(history, m, tnow) ==
    Get(history, m) # None /\ history[m][1] > tnow - DEDUP_HOURS

\* C29: a step changes the ledger entry of a metric only when it is a run
\* that delivered a message holding an alert of that metric, and then the
\* entry is the time of the delivery (so the entry of a suppressed
\* candidate, and of a metric with no candidate, stays as it is); a
\* candidate is suppressed exactly when the entry of its own metric is
\* fresh, whatever the entries of the other metrics are; and the ledger
\* holds one time stamp per metric
C29_LedgerFrame ==
    [][/\ \A m \in Metrics :
             Get(historyFile', m) # Get(historyFile, m) =>
                /\ out'.returned
                /\ out'.path = "sent"
                /\ InBatch(out', m)
                /\ historyFile'[m] = Stamp(now')
       /\ out'.returned =>
             \A m \in Metrics :
                /\ IsCandidate(out', m) /\ FreshEntry(historyFile, m, now')
                      => ~InBatch(out', m) /\ historyFile'[m] = historyFile[m]
                /\ IsCandidate(out', m) /\ ~FreshEntry(historyFile, m, now')
                      => InBatch(out', m) \/ out'.path = "deduplicated"
                /\ IsCandidate(out', m) /\ ~FreshEntry(historyFile, m, now')
                      => out'.path # "deduplicated"
       /\ DOMAIN historyFile' \subseteq Metrics
       /\ \A m \in DOMAIN historyFile' :
             \E t \in 0..now' : historyFile'[m] = Stamp(t)
      ]_vars

\* C29 happens: a message is delivered for two metrics while a third
\* candidate is suppressed by its own fresh entry, which keeps its older
\* time, and a metric without a candidate keeps its entry
C29_Witness ==
    /\ out.returned
    /\ out.path = "sent"
    /\ \E m1, m2 \in Metrics :
          /\ m1 # m2
          /\ InBatch(out, m1)
          /\ historyFile[m1] = Stamp(now)
          /\ IsCandidate(out, m2)
          /\ ~InBatch(out, m2)
          /\ m2 \in DOMAIN historyFile
          /\ historyFile[m2][1] < now

HrvHabit == DEFAULT_HABITS[4]

\* the whole numbers of the HRV values of the rows that have one
HrvValues(rows) ==
    LET vals == NotNoneValues(rows, "average_hrv")
    IN  [i \in 1..Len(vals) |-> vals[i][1]]

\* x is the mean of the HRV values of the rows
IsHrvMean(x, rows) ==
    /\ HrvValues(rows) # <<>>
    /\ x[1] * Len(HrvValues(rows)) = x[2] * IntSum(HrvValues(rows))

\* the streak of the HRV habit is the run, at the end of the window, of
\* the days whose HRV is at least its stored target
HrvStreakAgainstTarget ==
    LET rows_asc == RowsAsc(db.daily_metrics)
        r == HabitStreaks(db)["hrv_above_avg"]
    IN  r.current_streak
           = RunEndingAt(Misses(rows_asc, HrvHabit, r.target_value),
                         Len(rows_asc))

\* C26 as stated: after update_streaks the target of hrv_above_avg is the
\* mean of the non-missing HRV values of the full history, a day qualifies
\* iff its HRV is at least that mean, and the habit is skipped (nothing is
\* written) when no HRV value exists
C26_FullHistoryMean ==
    ret.op = "update_streaks" =>
        IF HrvValues(db.daily_metrics) = <<>>
        THEN "hrv_above_avg" \notin DOMAIN HabitStreaks(db)
        ELSE /\ "hrv_above_avg" \in DOMAIN HabitStreaks(db)
             /\ IsHrvMean(HabitStreaks(db)["hrv_above_avg"].target_value,
                          db.daily_metrics)
             /\ HrvStreakAgainstTarget

\* C26 amended: the target is the mean of the non-missing HRV values of
\* the scanned window, the 90 most recent days; a day qualifies iff its HRV
\* is at least that mean; nothing is written when the window holds no HRV
\* value
C26_WindowMean ==
    ret.op = "update_streaks" =>
        IF HrvValues(RowsAsc(db.daily_metrics)) = <<>>
        THEN "hrv_above_avg" \notin DOMAIN HabitStreaks(db)
        ELSE /\ "hrv_above_avg" \in DOMAIN HabitStreaks(db)
             /\ IsHrvMean(HabitStreaks(db)["hrv_above_avg"].target_value,
                          RowsAsc(db.daily_metrics))
             /\ HrvStreakAgainstTarget

\* C26 happens: the history is longer than the window, the mean of the
\* window is not a whole number and differs from that of the history, and
\* the record of the habit is stored
C26_Witness ==
    /\ ret.op = "update_streaks"
    /\ Len(db.daily_metrics) > 90
    /\ "hrv_above_avg" \in DOMAIN HabitStreaks(db)
    /\ HabitStreaks(db)["hrv_above_avg"].target_value[2] > 1
    /\ ~IsHrvMean(HabitStreaks(db)["hrv_above_avg"].target_value,
                  db.daily_metrics)

(***************************************************************************)
(* Cutoff of the bedtime habit (checked under StreakSpec)                  *)
(***************************************************************************)
BedtimeHabit == DEFAULT_HABITS[3]

\* the bedtime the habit looks at: bedtime_start, or bedtime_end without it
StoredBedtime(row) ==
    IF Get(row, "bedtime_start") # None THEN row["bedtime_start"]
    ELSE row["bedtime_end"]

\* the days of the window whose bedtime is not strictly before 23:00 on the
\* clock (or is missing or unparsable)
NotBefore2300(rows_asc) ==
    {i \in 1..Len(rows_asc) :
        \/ Get(rows_asc[i], "bedtime_end") = None
        \/ ~StoredBedtime(rows_asc[i]).valid
        \/ StoredBedtime(rows_asc[i]).hour * 60
              + StoredBedtime(rows_asc[i]).minute >= 23 * 60}

\* C25: 23:00 is an exclusive cutoff on hour and minute: after
\* update_streaks the streaks of bedtime_2300 are the runs of the days
\* whose bedtime is strictly before 23:00, so a bedtime of exactly 23:00
\* does not extend the streak and 22:59 does
C25_ExclusiveCutoff ==
    ret.op = "update_streaks" /\ "bedtime_2300" \in DOMAIN HabitStreaks(db) =>
        LET rows_asc == RowsAsc(db.daily_metrics)
            late == NotBefore2300(rows_asc)
            r == HabitStreaks(db)["bedtime_2300"]
        IN  /\ r.current_streak = RunEndingAt(late, Len(rows_asc))
            /\ r.best_streak
                  = SetMax({RunEndingAt(late, j) : j \in 0..Len(rows_asc)})

(***************************************************************************)
(* The alert check over stored files it did not write itself.  The ledger  *)
(* and the baseline snapshot are JSON files on disk: _load_json returns    *)
(* whatever strings they hold, and run_alert_check and _filter_duplicates  *)
(* hand them to datetime.fromisoformat outside any try block.              *)
(***************************************************************************)
\* a stored string datetime.fromisoformat rejects with ValueError
BadStamp == <<0, 0>>

\* datetime.fromisoformat(s) returns
Parses(s) == s # None /\ Len(s) = 1

\* the parse of baselines['updated_at'] in run_alert_check raises
BaselineRaises(baselines) ==
    /\ Get(baselines, "updated_at") # None
    /\ ~Parses(baselines["updated_at"])

\* the parse of last_sent in _filter_duplicates raises for some alert
FilterRaises(alerts, history) ==
    \E i \in 1..Len(alerts) :
        LET last_sent == Get(history, alerts[i].metric)
        IN  last_sent # None /\ ~Parses(last_sent)

StoredLedgers ==
    {"spo2" :> BadStamp,
     ("spo2" :> Stamp(0)) @@ ("hrv" :> BadStamp)}

StoredBaselines ==
    {EmptyDict,
     [compute_baselines(HistFull, 0) EXCEPT !["updated_at"] = BadStamp]}

StoredInit ==
    /\ now = 0
    /\ credsSet = TRUE
    /\ baselinesFile \in StoredBaselines
    /\ historyFile \in StoredLedgers
    /\ out = Idle
    /\ argBaselines = EmptyDict
    /\ argCurrent = EmptyDict
    /\ result = <<>>
    /\ db = EmptyDb
    /\ job = JobIdle
    /\ ret = None

\* run_alert_check() over the stored files: the run ends in ValueError at
\* the first string fromisoformat rejects, and otherwise goes on as
\* RunAlertCheck describes
RunStoredCheck(hist, cur, dFetch) ==
    IF BaselineRaises(baselinesFile)
    THEN /\ out' = [Idle EXCEPT !.path = "raised"]
         /\ UNCHANGED <<now, credsSet, baselinesFile, historyFile,
                        argBaselines, argCurrent, result>>
         /\ UNCHANGED analyticsVars
    ELSE LET stale == should_update(baselinesFile, now)
             tFetch == now + dFetch
             baselines == IF stale THEN compute_baselines(hist, tFetch)
                          ELSE baselinesFile
             current == get_current_values(cur)
             alerts == check_alerts(baselines, current)
         IN  IF /\ current # EmptyDict
                /\ FilterRaises(alerts, historyFile)
             THEN /\ tFetch <= MaxTime
                  /\ now' = tFetch
                  /\ baselinesFile' = baselines
                  /\ out' = [Idle EXCEPT !.path = "raised",
                                         !.updated = stale,
                                         !.candidates = alerts]
                  /\ UNCHANGED <<credsSet, historyFile,
                                 argBaselines, argCurrent, result>>
                  /\ UNCHANGED analyticsVars
             ELSE RunAlertCheck(hist, cur, dFetch)

StoredNext ==
    \/ \E hist \in {Down, HistFull}, cur \in {Down, CurBad, CurSpo2},
          dFetch \in Delays :
          RunStoredCheck(hist, cur, dFetch)
    \/ \E d \in TickSteps : Tick(d)

StoredSpec == StoredInit /\ [][StoredNext]_vars

\* C22 (run_alert_check): a stored timestamp that does not parse is skipped
\* and never fatal - a run of the alert check that meets an unparsable
\* ledger entry or an unparsable baseline updated_at still completes its
\* check, so no run ends by raising.
C22_MalformedNotFatal ==
    out.path # "raised"

(***************************************************************************)
(* The daily report.  setup_scheduler registers job_daily_report under six *)
(* job ids (the configured attempt and five retries) and                   *)
(* job_force_daily_report under one; each firing is a coroutine of its own *)
(* on the event loop and gives up control at every await.  job holds the   *)
(* calendar date, the time slot of the morning, the module global          *)
(* _daily_report_sent_date and, per firing, its position and the           *)
(* current_date it read; ret counts the successful run_daily_report calls  *)
(* of each date.                                                           *)
(***************************************************************************)
MaxDates == 2

Date(d) == <<d>>

Retries ==
    <<"daily_retry_8_0", "daily_retry_8_30", "daily_retry_9_0",
      "daily_retry_9_30", "daily_retry_10_0">>

Firings ==
    {"daily_report", "daily_force"} \cup {Retries[i] : i \in DOMAIN Retries}

\* the half hours of the morning: 0 is 07:30, the default of
\* DAILY_REPORT_HOUR and DAILY_REPORT_MINUTE, 1..5 are the retries from
\* 08:00 to 10:00, 6 is the forced attempt at 10:30
LastSlot == 6

ConfiguredSlots == {0, 1, LastSlot}

Slot(f, configured) ==
    CASE f = "daily_report" -> configured
      [] f = "daily_force"  -> LastSlot
      [] OTHER -> CHOOSE i \in DOMAIN Retries : Retries[i] = f

DailyInit ==
    /\ now = 0
    /\ credsSet = TRUE
    /\ baselinesFile = EmptyDict
    /\ historyFile = EmptyDict
    /\ out = Idle
    /\ argBaselines = EmptyDict
    /\ argCurrent = EmptyDict
    /\ result = <<>>
    /\ db = EmptyDb
    /\ \E configured \in ConfiguredSlots :
          job = [date |-> 1, slot |-> 0, configured |-> configured,
                 daily_report_sent_date |-> None,
                 pc |-> [f \in Firings |-> "idle"],
                 current_date |-> [f \in Firings |-> None]]
    /\ ret = [d \in 1..MaxDates |-> 0]

DailyFrame == UNCHANGED <<now, credsSet, baselinesFile, historyFile, out,
                          argBaselines, argCurrent, result, db>>

\* a trigger fires: the coroutine runs up to its first await
Fire(f) ==
    /\ job.pc[f] = "idle"
    /\ Slot(f, job.configured) = job.slot
    /\ LET current_date == Date(job.date)
           next == IF job.daily_report_sent_date = current_date THEN "done"
                   ELSE IF f = "daily_force" THEN "run_daily_report"
                   ELSE "check_sleep_completed"
       IN  job' = [job EXCEPT !.pc[f] = next,
                              !.current_date[f] = current_date]
    /\ UNCHANGED ret
    /\ DailyFrame

\* await check_sleep_completed(30) returns to job_daily_report
SleepChecked(f, is_completed) ==
    /\ job.pc[f] = "check_sleep_completed"
    /\ job' = [job EXCEPT !.pc[f] = IF is_completed THEN "run_daily_report"
                                    ELSE "done"]
    /\ UNCHANGED ret
    /\ DailyFrame

\* variant: the flag is tested again after the await
ReportReturns_recheck(f, success) ==
    /\ job.pc[f] = "run_daily_report"
    /\ LET sends == success /\ job.daily_report_sent_date # job.current_date[f]
       IN  /\ job' = [job EXCEPT
                        !.pc[f] = "done",
                        !.daily_report_sent_date =
                            IF sends THEN job.current_date[f] ELSE @]
           /\ ret' = IF sends
                     THEN [ret EXCEPT ![job.current_date[f][1]] = @ + 1]
                     ELSE ret
    /\ DailyFrame

\* await run_daily_report() returns: on success the report went out and the
\* flag takes the date the firing read when it started
ReportReturns(f, success) ==
    /\ job.pc[f] = "run_daily_report"
    /\ job' = [job EXCEPT
                 !.pc[f] = "done",
                 !.daily_report_sent_date =
                     IF success THEN job.current_date[f] ELSE @]
    /\ ret' = IF success
              THEN [ret EXCEPT ![job.current_date[f][1]] = @ + 1]
              ELSE ret
    /\ DailyFrame

\* the clock reaches the next trigger time once every firing of this one
\* has returned
NextSlot ==
    /\ job.slot < LastSlot
    /\ \A f \in Firings : job.pc[f] \in {"idle", "done"}
    /\ \A f \in Firings : Slot(f, job.configured) = job.slot
                            => job.pc[f] = "done"
    /\ job' = [job EXCEPT !.slot = @ + 1]
    /\ UNCHANGED ret
    /\ DailyFrame

\* midnight passes: the triggers of the next date are all still to fire
NextDate ==
    /\ job.slot = LastSlot
    /\ \A f \in Firings : job.pc[f] = "done"
    /\ job.date < MaxDates
    /\ job' = [job EXCEPT !.date = @ + 1, !.slot = 0,
                          !.pc = [f \in Firings |-> "idle"],
                          !.current_date = [f \in Firings |-> None]]
    /\ UNCHANGED ret
    /\ DailyFrame

DailyNext ==
    \/ \E f \in Firings : Fire(f)
    \/ \E f \in Firings, is_completed \in BOOLEAN : SleepChecked(f, is_completed)
    \/ \E f \in Firings, success \in BOOLEAN : ReportReturns(f, success)
    \/ NextSlot
    \/ NextDate

DailySpec == DailyInit /\ [][DailyNext]_vars

\* C28 (job_daily_report, job_force_daily_report): run_daily_report succeeds
\* at most once per calendar date under every interleaving of the seven
\* firings, two firings that overlap at an await included.
C28_AtMostOnePerDate ==
    \A d \in 1..MaxDates : ret[d] <= 1

(***************************************************************************)
(* get_percentile_label, over caches compute_percentiles has written from  *)
(* seven days of sleep scores and lowest heart rates: spread out, all the  *)
(* same, or with one day fewer than a record needs.                        *)
(***************************************************************************)
lower_is_better(metric_name) ==
    metric_name \in {"lowest_heart_rate", "sleep_latency", "stress_high",
                     "temperature_deviation"}

\* variant: the lower-is-better metrics are compared like the others
get_percentile_label_plain(d, metric_name, value) ==
    LET cache == ByKey(d.percentile_cache)
    IN  IF metric_name \notin DOMAIN cache THEN "none"
        ELSE LET row == cache[metric_name]
             IN  IF QGe(value, row.p90) THEN "top 10%"
                 ELSE IF QGe(value, row.p75) THEN "top 25%"
                 ELSE IF QLe(value, row.p10) THEN "bottom 10%"
                 ELSE IF QLe(value, row.p25) THEN "bottom 25%"
                 ELSE "none"

\* get_percentile_label(metric_name, value) over the database d; "none" is
\* the None it returns, the other labels are given without their emoji
get_percentile_label(d, metric_name, value) ==
    LET cache == ByKey(d.percentile_cache)
    IN  IF metric_name \notin DOMAIN cache THEN "none"
        ELSE LET row == cache[metric_name]
             IN  IF lower_is_better(metric_name)
                 THEN IF QLe(value, row.p10) THEN "top 10%"
                      ELSE IF QLe(value, row.p25) THEN "top 25%"
                      ELSE IF QGe(value, row.p90) THEN "bottom 10%"
                      ELSE IF QGe(value, row.p75) THEN "bottom 25%"
                      ELSE "none"
                 ELSE IF QGe(value, row.p90) THEN "top 10%"
                      ELSE IF QGe(value, row.p75) THEN "top 25%"
                      ELSE IF QLe(value, row.p10) THEN "bottom 10%"
                      ELSE IF QLe(value, row.p25) THEN "bottom 25%"
                      ELSE "none"

MaxValue == 100

LabelRow(day, score, rate) ==
    ("day" :> day) @@ ("sleep_score" :> Q(score))
    @@ ("lowest_heart_rate" :> Q(rate))

LabelHistories ==
    {[i \in 1..7 |-> LabelRow(i, 20 + 10 * i, 35 + 5 * i)],
     [i \in 1..7 |-> LabelRow(i, 70, 50)],
     [i \in 1..6 |-> LabelRow(i, 20 + 10 * i, 35 + 5 * i)]}

LabelInit ==
    /\ AlertIdle
    /\ job = JobIdle
    /\ ret = None
    /\ \E h \in LabelHistories : db = [EmptyDb EXCEPT !.daily_metrics = h]

GetPercentileLabel(metric_name, value) ==
    /\ ret' = [op |-> "get_percentile_label", metric_name |-> metric_name,
               value |-> value,
               label |-> get_percentile_label(db, metric_name, value)]
    /\ UNCHANGED <<db, job>>
    /\ UNCHANGED alertVars

LabelNext ==
    \/ ComputePercentiles
    \/ \E metric_name \in {"sleep_score", "lowest_heart_rate", "steps"},
          value \in 0..MaxValue :
          GetPercentileLabel(metric_name, Q(value))

LabelSpec == LabelInit /\ [][LabelNext]_vars

IsLabelCall == ret # None /\ ret.op = "get_percentile_label"

LowerIsBetter ==
    {"lowest_heart_rate", "sleep_latency", "stress_high",
     "temperature_deviation"}

ThinRow(day) ==
    ("day" :> day) @@ ("steps" :> Q(9000))
    @@ (IF day <= 7 THEN "sleep_score" :> Q(70 + day) ELSE EmptyDict)
    @@ (IF day = 1 THEN "average_hrv" :> Q(50) ELSE EmptyDict)

ThinHistory == [i \in 1..13 |-> ThinRow(i)]

ThinInit ==
    /\ AlertIdle
    /\ job = JobIdle
    /\ ret = None
    /\ \E h \in {<<>>, ThinHistory} :
          db = [EmptyDb EXCEPT
                  !.daily_metrics = h,
                  !.events = {Event("coffee", day, 8) : day \in 1..3}]

\* job_recompute_analytics(): the three functions, each to its end
RecomputeAnalytics ==
    /\ job.runs < MaxRuns
    /\ now' = now + 1
    /\ job' = [job EXCEPT !.runs = @ + 1]
    /\ db' = CompleteRun(AnalyticsOrder, db, now')
    /\ UNCHANGED ret
    /\ UNCHANGED <<credsSet, baselinesFile, historyFile, out,
                   argBaselines, argCurrent, result>>

ThinNext ==
    \/ RecomputeAnalytics
    \/ AddEvent(Event("coffee", 3, 8))
    \/ DeleteEvent(Event("coffee", 3, 8))
    \/ \E row \in {ThinRow(14), ThinRow(1), [day |-> 1]} :
          InsertDailyMetric(row)

ThinSpec == ThinInit /\ [][ThinNext]_vars

CorrelationKeys ==
    {<<EventTypeOrder[t], metric_fields[m], b>> :
        t \in DOMAIN EventTypeOrder, m \in DOMAIN metric_fields,
        b \in {"all"} \cup TimeBuckets}

\* C23: insufficient data is a no-op that leaves the derived record as it
\* was.  A step does not change the percentile record of a metric that has
\* fewer than 7 non-missing values; it does not change the correlation
\* record of a key when there are fewer than 14 metric days, fewer than 3
\* distinct days with an event of the type, or a partition below its floor
\* (3 days with and 3 without the event, 2 with in a time-of-day bucket);
\* it changes no streak record when there are no rows, and not the record
\* of hrv_above_avg when no scanned row has an HRV value.
C23_InsufficientNoOp ==
    [][/\ \A metric \in Tracked :
             Len(MetricValues(metric)) < 7 =>
                Get(ByKey(db'.percentile_cache), metric)
                   = Get(PercentileCache, metric)
       /\ \A key \in CorrelationKeys :
             (\/ Len(db.daily_metrics) < 14
              \/ Cardinality(EventDays(db, key[1], "all")) < 3
              \/ PartitionSize(db, key, TRUE) < FloorWith(key[3])
              \/ PartitionSize(db, key, FALSE) < 3)
             => Get(Correlations(db'), key) = Get(Correlations(db), key)
       /\ db.daily_metrics = <<>> => db'.habit_streaks = db.habit_streaks
       /\ NotNoneValues(RowsAsc(db.daily_metrics), "average_hrv") = <<>>
             => Get(HabitStreaks(db'), "hrv_above_avg")
                   = Get(HabitStreaks(db), "hrv_above_avg")
      ]_vars

\* the second batch ran on 14 days of which six have a sleep score and
\* none an HRV, with coffee on two days: it wrote the records of the steps
\* anew and left the sleep-score percentiles, the coffee correlation of
\* the steps and the HRV streak as the first batch wrote them
C23_Witness ==
    /\ now = 2
    /\ Len(MetricValues("sleep_score")) = 6
    /\ "sleep_score" \in DOMAIN PercentileCache
    /\ PercentileCache["sleep_score"].updated_at = Stamp(1)
    /\ PercentileCache["sleep_score"].count = 7
    /\ PercentileCache["steps"].updated_at = Stamp(2)
    /\ Cardinality(EventDays(db, "coffee", "all")) = 2
    /\ <<"coffee", "steps", "all">> \in DOMAIN Correlations(db)
    /\ Correlations(db)[<<"coffee", "steps", "all">>].updated_at = Stamp(1)
    /\ "hrv_above_avg" \in DOMAIN HabitStreaks(db)
    /\ HabitStreaks(db)["hrv_above_avg"].updated_at = Stamp(1)
    /\ HabitStreaks(db)["steps_8k"].updated_at = Stamp(2)

(***************************************************************************)
(* Days without a value.  _cache_daily_metrics stores the row of the next  *)
(* day from the responses of the Oura API: a usual day, a day on which the *)
(* ring recorded zeros, or a day whose activity and sleep session are not  *)
(* there.  The history has 13 days, one of each kind in turn, and coffee   *)
(* on the first five mornings.  The batch and calculate_sleep_debt run in  *)
(* between.  Of the columns of daily_metrics the row keeps those the       *)
(* aggregates of the model read.                                           *)
(***************************************************************************)
\* variant: a field the response lacks is stored as 0
DailyMetricRow_zero(day, sleep, activity, session) ==
    LET Or0(x) == IF x = None THEN Q(0) ELSE x
    IN  [day |-> day,
         sleep_score |-> Or0(Get(sleep, "score")),
         total_sleep_duration |-> Or0(Get(session, "total_sleep_duration")),
         average_hrv |-> Or0(Get(session, "average_hrv")),
         steps |-> Or0(Get(activity, "steps"))]

\* the row _insert_daily_metric(day, sleep, readiness, activity, session,
\* stress) stores: dict.get gives None for a field the response lacks
DailyMetricRow(day, sleep, activity, session) ==
    [day |-> day,
     sleep_score |-> Get(sleep, "score"),
     total_sleep_duration |-> Get(session, "total_sleep_duration"),
     average_hrv |-> Get(session, "average_hrv"),
     steps |-> Get(activity, "steps")]

ResponseKinds == {"usual", "zero", "absent"}

Responses(kind) ==
    [sleep |-> "score" :> Q(80),
     activity |-> CASE kind = "usual" -> "steps" :> Q(9000)
                    [] kind = "zero" -> "steps" :> Q(0)
                    [] kind = "absent" -> EmptyDict,
     session |-> CASE kind = "usual" ->
                        ("total_sleep_duration" :> Q(8 * 3600))
                        @@ ("average_hrv" :> Q(50))
                   [] kind = "zero" ->
                        ("total_sleep_duration" :> Q(0))
                        @@ ("average_hrv" :> Q(0))
                   [] kind = "absent" -> EmptyDict]

StoredDay(day, kind) ==
    DailyMetricRow(day, Responses(kind).sleep, Responses(kind).activity,
                   Responses(kind).session)

KindOfDay(day) ==
    CASE day % 3 = 1 -> "usual" [] day % 3 = 2 -> "zero" [] OTHER -> "absent"

AbsentInit ==
    /\ AlertIdle
    /\ job = JobIdle
    /\ ret = [op |-> "none", appended |-> 0, value |-> None, kind |-> "none"]
    /\ db = [EmptyDb EXCEPT
               !.daily_metrics = [i \in 1..13 |-> StoredDay(i, KindOfDay(i))],
               !.events = {Event("coffee", day, 8) : day \in 1..5}]

\* _cache_daily_metrics(): the row of the next day is inserted
CacheDay(kind) ==
    /\ ret.appended < MaxAppend
    /\ db' = [db EXCEPT !.daily_metrics =
                 UpsertDay(@, StoredDay(Len(@) + 1, kind))]
    /\ ret' = [op |-> "cache_daily_metrics", appended |-> ret.appended + 1,
               value |-> None, kind |-> kind]
    /\ UNCHANGED job
    /\ UNCHANGED alertVars

AbsentNext ==
    \/ \E kind \in ResponseKinds : CacheDay(kind)
    \/ RecomputeAnalytics
    \/ CalculateSleepDebt

AbsentSpec == AbsentInit /\ [][AbsentNext]_vars

\* the whole numbers of a column, 0 where the day has no value
Column(field) ==
    [i \in 1..Len(db.daily_metrics) |->
        IF i \in Valued(field) THEN db.daily_metrics[i][field][1] ELSE 0]

\* the days, among those with a value of the metric, with (or without) an
\* event of the key
Partition(key, with) ==
    {i \in Valued(key[2]) :
        (db.daily_metrics[i]["day"] \in EventDays(db, key[1], key[3]))
           <=> with}

\* the record of the key in the table was written by the step
Written(table, key) ==
    /\ key \in DOMAIN ByKey(db'[table])
    /\ ByKey(db'[table])[key].updated_at = Stamp(now')
    /\ now' # now

\* C24: a missing metric is never coerced to 0.  A field the response
\* lacks is stored as absent and a recorded 0 as 0; the percentile record a
\* batch writes counts the days with a value, the correlation record
\* counts and averages, in each partition, the days with a value, the HRV
\* target is the mean over the days with an HRV, and the average sleep of
\* calculate_sleep_debt is taken over the latest nights with a duration -
\* days with a value of 0 included in each, days without a value in none.
C24_AbsentNotZero ==
    /\ [](ret.op = "cache_daily_metrics" =>
             LET row == db.daily_metrics[Len(db.daily_metrics)]
             IN  \A field \in {"steps", "total_sleep_duration", "average_hrv"} :
                    /\ ret.kind = "absent" <=> Get(row, field) = None
                    /\ ret.kind = "zero" <=> Get(row, field) = Q(0))
    /\ [](IsDebtCall /\ ret.value # None =>
             QEq(ret.value.avg_sleep,
                 <<SetSum(Seconds, DebtWindow),
                   3600 * Cardinality(DebtWindow)>>))
    /\ [][/\ \A metric \in Tracked :
                Written("percentile_cache", metric) =>
                   /\ ByKey(db'.percentile_cache)[metric].count
                         = Cardinality(Valued(metric))
                   /\ (\E i \in Valued(metric) : Column(metric)[i] = 0)
                         => ByKey(db'.percentile_cache)[metric].p10 = Q(0)
          /\ \A key \in CorrelationKeys :
                Written("correlations", key) =>
                   LET r == Correlations(db')[key]
                   IN  /\ r.count_with = Cardinality(Partition(key, TRUE))
                       /\ r.count_without = Cardinality(Partition(key, FALSE))
                       /\ QEq(r.avg_with_event,
                              <<SetSum(Column(key[2]), Partition(key, TRUE)),
                                r.count_with>>)
                       /\ QEq(r.avg_without_event,
                              <<SetSum(Column(key[2]), Partition(key, FALSE)),
                                r.count_without>>)
          /\ Written("habit_streaks", "hrv_above_avg") =>
                IsHrvMean(HabitStreaks(db')["hrv_above_avg"].target_value,
                          RowsAsc(db.daily_metrics))
         ]_vars

\* day 14 came without activity and session; the batch counted 9 of the 14
\* days for the steps, four of them with 0 steps, and of the five coffee
\* days the four that have a step count; the sleep debt is taken over the
\* nine nights with a duration
C24_Witness ==
    /\ Len(db.daily_metrics) = 14
    /\ Get(db.daily_metrics[14], "steps") = None
    /\ Cardinality({i \in Valued("steps") : Column("steps")[i] = 0}) = 4
    /\ "steps" \in DOMAIN PercentileCache
    /\ PercentileCache["steps"].count = 9
    /\ <<"coffee", "steps", "all">> \in DOMAIN Correlations(db)
    /\ Correlations(db)[<<"coffee", "steps", "all">>].count_with = 4
    /\ Correlations(db)[<<"coffee", "steps", "all">>].count_without = 5
    /\ "hrv_above_avg" \in DOMAIN HabitStreaks(db)
    /\ HabitStreaks(db)["hrv_above_avg"].target_value = <<250, 9>>
    /\ IsDebtCall
    /\ ret.value # None
    /\ Cardinality(DebtWindow) = 9

(***************************************************************************)
(* The scheduler and two of its jobs.  setup_scheduler hands the jobs to   *)
(* an AsyncIOScheduler, whose executor awaits the job coroutine inside a   *)
(* try block and logs what it raises.  job_recompute_analytics has a try   *)
(* block of its own around the three computations, job_alert_check has     *)
(* none.  A tick is a trigger time at which both jobs are due; job holds   *)
(* the ticks so far, the jobs still to run at this tick, the job that is   *)
(* running, whether the scheduler is still running, and per job the runs   *)
(* started, the runs that raised and the failures logged.                  *)
(***************************************************************************)
Jobs == {"alert_check", "recompute_analytics"}

\* the job has a try/except Exception around its body
JobCatches(j) == j = "recompute_analytics"

\* variant: what a job raises leaves the executor and stops the scheduler
ExecutorCatches_none(j) == FALSE

\* the executor logs what a job raises and goes on
ExecutorCatches(j) == TRUE

SchedInit ==
    /\ now = 0
    /\ credsSet = TRUE
    /\ baselinesFile = EmptyDict
    /\ historyFile \in {EmptyDict, "spo2" :> BadStamp}
    /\ out = Idle
    /\ argBaselines = EmptyDict
    /\ argCurrent = EmptyDict
    /\ result = <<>>
    /\ db = [EmptyDb EXCEPT !.daily_metrics = NightlyHistory(3),
                            !.events = NightlyEvents(0)]
    /\ job = [tick |-> 0, pending |-> {}, running |-> None, alive |-> TRUE,
              started |-> [j \in Jobs |-> 0],
              raised |-> [j \in Jobs |-> 0],
              logged |-> [j \in Jobs |-> 0]]
    /\ ret = None

\* the job has returned or raised: the run is counted, a failure is logged
\* by the job or by the executor, and the scheduler stops if neither
\* catches it
Finished(j, raises) ==
    [job EXCEPT !.pending = @ \ {j},
                !.running = None,
                !.started[j] = @ + 1,
                !.raised[j] = IF raises THEN @ + 1 ELSE @,
                !.logged[j] = IF raises /\ (JobCatches(j) \/ ExecutorCatches(j))
                              THEN @ + 1 ELSE @,
                !.alive = ~(raises /\ ~JobCatches(j) /\ ~ExecutorCatches(j))]

\* the next trigger time: every job is due
SchedTick ==
    /\ job.alive
    /\ job.pending = {}
    /\ now + 12 <= MaxTime
    /\ now' = now + 12
    /\ job' = [job EXCEPT !.tick = @ + 1, !.pending = Jobs]
    /\ out' = Idle
    /\ UNCHANGED <<credsSet, baselinesFile, historyFile,
                   argBaselines, argCurrent, result, db, ret>>

\* the executor starts job_alert_check
StartAlertCheck ==
    /\ job.alive
    /\ job.running = None
    /\ "alert_check" \in job.pending
    /\ job' = [job EXCEPT !.running = <<"alert_check">>]
    /\ out' = Idle
    /\ UNCHANGED <<now, credsSet, baselinesFile, historyFile,
                   argBaselines, argCurrent, result, db, ret>>

\* await run_alert_check()
AlertCheckBody(cur) ==
    /\ job.running = <<"alert_check">>
    /\ out.path = "idle"
    /\ RunStoredCheck(HistFull, cur, 0)

\* job_alert_check is over: run_alert_check returned, or what it raised
\* left the job
AlertCheckEnds ==
    /\ job.running = <<"alert_check">>
    /\ out.path # "idle"
    /\ job' = Finished("alert_check", out.path = "raised")
    /\ UNCHANGED <<now, credsSet, baselinesFile, historyFile, out,
                   argBaselines, argCurrent, result, db, ret>>

\* job_recompute_analytics(): the three computations in turn; fails is the
\* one that raises (0: none), and those after it are not called
RecomputeJob(fails) ==
    /\ job.alive
    /\ job.running = None
    /\ "recompute_analytics" \in job.pending
    /\ db' = CompleteRun(SubSeq(AnalyticsOrder, 1,
                                IF fails = 0 THEN 3 ELSE fails - 1), db, now)
    /\ job' = Finished("recompute_analytics", fails # 0)
    /\ UNCHANGED <<now, credsSet, baselinesFile, historyFile, out,
                   argBaselines, argCurrent, result, ret>>

SchedNext ==
    \/ SchedTick
    \/ StartAlertCheck
    \/ \E cur \in {Down, CurSpo2} : AlertCheckBody(cur)
    \/ AlertCheckEnds
    \/ \E fails \in 0..3 : RecomputeJob(fails)

SchedSpec == SchedInit /\ [][SchedNext]_vars

====
